---- MODULE Spec2Model ----
(***************************************************************************)
(* SeSPHR: the SRS key broker (backend/app/api), its policy evaluator,     *)
(* the identity and attribute stores, the per-object metadata store and    *)
(* the hash-chained audit log.                                             *)
(*                                                                         *)
(* Strings the code splits, strips or compares are sequences of symbols:   *)
(* "Role:Doctor AND Dept:Cardio" is                                        *)
(*   <<"Role", ":", "Doctor", " ", "AND", " ", "Dept", ":", "Cardio">>.    *)
(* RSA-OAEP is symbolic: a ciphertext names the key pair it was sealed to  *)
(* and the plaintext; only the private half of that pair opens it.         *)
(* SHA-256 is injective: a digest is the serialization it was taken of.    *)
(***************************************************************************)
EXTENDS Integers, Sequences, FiniteSets, TLC

VARIABLES
    users,      \* identity store: user id -> role ("" = no such row)
    attrRows,   \* attribute store: set of <<user id, key, value>> rows
    userKeys,   \* cloud/keys/users: user id -> id of the pair on file
    srsKey,     \* cloud/keys/srs: [priv, pub] ids of the persisted files
    meta,       \* cloud/meta: metadata file name -> record
    data,       \* cloud/data: blob file name -> bytes
    log,        \* audit.log: sequence of lines
    now,        \* int(time.time())
    req,        \* request slot -> the handler's locals and position
    nreq,       \* requests started so far
    ev,         \* one call of evaluate_policy: its arguments and its result
    session     \* the session cookie of one client: [user_id, role]

vars ==
    <<users, attrRows, userKeys, srsKey, meta, data, log, now, req, nreq, ev,
      session>>

----------------------------------------------------------------------------
(* Bounds *)

\* requests started in one behaviour, with concurrent handlers
MaxReqConc == 3
\* requests started in one behaviour, one handler at a time
MaxReqSeq == 4
\* requests started in one behaviour of the identity/attribute stores
MaxReqId == 5
\* seconds the clock may advance
MaxTime == 1
\* key pairs generated per user
MaxKeyVer == 1
\* requests started in a behaviour of SpecPol
MaxReqPol == 4

----------------------------------------------------------------------------
(* Universe of inputs *)

Patients == {"p1", "p2"}
Doctors == {"d1", "d2"}
Admins == {"a1"}
UserIds == Patients \cup Doctors \cup Admins
\* uuid4 order of issue
IdOrder == <<"p1", "d1", "a1", "p2", "d2">>
NoSession == ""
\* the cookie of a client that is not logged in
NoCookie == [user_id |-> NoSession, role |-> ""]
Procs == {1, 2}

\* string constants, as symbol sequences
Str(sym) == <<sym>>
SENTINEL == <<"Role", ":", "__REVOKED__">>
PolRoleDoctor == <<"Role", ":", "Doctor">>
PolRoleDept == <<"Role", ":", "Doctor", " ", "AND", " ", "Dept", ":", "Cardio">>
PolDeptNone == <<"Dept", ":", "None">>
FileF == <<"f">>
FileG == <<"g", ".enc">>

NoKeyId == <<"none", 0>>
SrsKeyId == <<"srs", 1>>

----------------------------------------------------------------------------
(* Python string helpers, on symbol sequences *)

EndsWith(s, sym) == Len(s) > 0 /\ s[Len(s)] = sym

\* str.replace(sym, "")
RECURSIVE Remove(_, _)
Remove(s, sym) ==
    IF s = <<>> THEN <<>>
    ELSE IF Head(s) = sym THEN Remove(Tail(s), sym)
    ELSE <<Head(s)>> \o Remove(Tail(s), sym)

\* str.split(sep): always at least one part
RECURSIVE SplitOn(_, _)
SplitOn(s, sep) ==
    IF s = <<>> THEN << <<>> >>
    ELSE LET rest == SplitOn(Tail(s), sep) IN
         IF Head(s) = sep THEN << <<>> >> \o rest
         ELSE << <<Head(s)>> \o Head(rest) >> \o Tail(rest)

RECURSIVE LStrip(_)
LStrip(s) == IF s # <<>> /\ Head(s) = " " THEN LStrip(Tail(s)) ELSE s

RECURSIVE RStrip(_)
RStrip(s) ==
    IF s # <<>> /\ s[Len(s)] = " " THEN RStrip(SubSeq(s, 1, Len(s) - 1)) ELSE s

\* str.strip()
Strip(s) == RStrip(LStrip(s))

\* as Capitalize, but the role name is left as it is stored
Capitalize_Unchanged(role) == Str(role)

\* str.capitalize() on the role names of ALLOWED_ROLES
Capitalize(role) ==
    CASE role = "patient" -> Str("Patient")
      [] role = "doctor" -> Str("Doctor")
      [] role = "admin" -> Str("Admin")
      [] OTHER -> Str(role)

\* dict.get(key): <<>> for None, <<v>> for a value
Get(d, key) == IF key \in DOMAIN d THEN <<d[key]>> ELSE <<>>

\* str(x) of a dict.get result: str(None) is the text "None"
PyStr(opt) == IF opt = <<>> THEN Str("None") ELSE opt[1]

----------------------------------------------------------------------------
(* policy/parser.py *)

\* parse_policy: [raised, rules]; "key, value = ...split(':')" raises
\* ValueError unless the clause has exactly two fields
parse_policy(policy_str) ==
    LET parts == SplitOn(policy_str, "AND")
        fields(i) == SplitOn(Strip(parts[i]), ":")
    IN  IF \E i \in 1..Len(parts) : Len(fields(i)) # 2
        THEN [raised |-> TRUE, rules |-> <<>>]
        ELSE [raised |-> FALSE,
              rules |-> [i \in 1..Len(parts) |->
                            <<Strip(fields(i)[1]), Strip(fields(i)[2])>>]]

\* evaluate_policy(user, policy_str): [raised, value]
evaluate_policy(attributes, policy_str) ==
    LET p == parse_policy(policy_str) IN
    IF p.raised THEN [raised |-> TRUE, value |-> FALSE]
    ELSE [raised |-> FALSE,
          value |-> \A i \in 1..Len(p.rules) :
                       PyStr(Get(attributes, p.rules[i][1])) = p.rules[i][2]]

----------------------------------------------------------------------------
(* Symbolic RSA-OAEP and hex strings *)

\* PKCS1_OAEP.encrypt under the public half of pair pk
Enc(pk, k) == [pk |-> pk, k |-> k]

\* PKCS1_OAEP.decrypt with the private half of pair sk: <<>> is ValueError
Dec(sk, ct) == IF sk # NoKeyId /\ ct.pk = sk THEN <<ct.k>> ELSE <<>>

NoBytes == [pk |-> NoKeyId, k |-> ""]
\* bytes.hex()
HexOf(bytes) == [hex |-> TRUE, bytes |-> bytes]
\* a form value that is not hex digits
NotHex == [hex |-> FALSE, bytes |-> NoBytes]
EmptyStr == [hex |-> TRUE, bytes |-> NoBytes]
\* bytes.fromhex(s): <<>> is ValueError
FromHex(s) == IF s.hex THEN <<s.bytes>> ELSE <<>>

----------------------------------------------------------------------------
(* crypto/keys.py *)

\* as get_or_create_srs_key, but a pair is generated at every call
get_or_create_srs_key_Regenerate(k) ==
    [priv |-> <<"srs", nreq + 1>>, pub |-> <<"srs", nreq + 1>>]

\* get_or_create_srs_key: the key files after the call. RSA.generate gives
\* a pair no earlier request was given: it is numbered by the requests
\* started so far
get_or_create_srs_key(k) ==
    IF k.priv # NoKeyId /\ k.pub # NoKeyId THEN k
    ELSE [priv |-> <<"srs", nreq + 1>>, pub |-> <<"srs", nreq + 1>>]

\* get_user_public_key: NoKeyId is None
get_user_public_key(user_id) ==
    IF user_id \in DOMAIN userKeys THEN userKeys[user_id] ELSE NoKeyId

\* generate_user_keys: a fresh pair replaces the one on file
generate_user_keys(keys, user_id) ==
    [keys EXCEPT ![user_id] = <<user_id, keys[user_id][2] + 1>>]

----------------------------------------------------------------------------
(* app/services/crypto/ops.py *)

\* as re_encrypt_key, but the stored blob is handed back without re-wrapping
re_encrypt_key_NoRewrap(encrypted_key_hex, doctor_user_id) ==
    LET srs == get_or_create_srs_key(srsKey)
        raw == FromHex(encrypted_key_hex)
        aes_key == IF raw = <<>> THEN <<>> ELSE Dec(srs.priv, raw[1])
        doctor_pub == get_user_public_key(doctor_user_id)
    IN  IF aes_key = <<>>
        THEN [raised |-> TRUE, unwrapped |-> raw # <<>>, value |-> EmptyStr]
        ELSE IF doctor_pub = NoKeyId
        THEN [raised |-> TRUE, unwrapped |-> TRUE, value |-> EmptyStr]
        ELSE [raised |-> FALSE, unwrapped |-> TRUE, value |-> encrypted_key_hex]

\* as re_encrypt_key, but a blob that cannot be unwrapped is handed back as
\* it is stored
re_encrypt_key_PassThrough(encrypted_key_hex, doctor_user_id) ==
    LET srs == get_or_create_srs_key(srsKey)
        raw == FromHex(encrypted_key_hex)
        aes_key == IF raw = <<>> THEN <<>> ELSE Dec(srs.priv, raw[1])
        doctor_pub == get_user_public_key(doctor_user_id)
    IN  IF aes_key = <<>>
        THEN [raised |-> FALSE, unwrapped |-> raw # <<>>,
              value |-> encrypted_key_hex]
        ELSE IF doctor_pub = NoKeyId
        THEN [raised |-> TRUE, unwrapped |-> TRUE, value |-> EmptyStr]
        ELSE [raised |-> FALSE, unwrapped |-> TRUE,
              value |-> HexOf(Enc(doctor_pub, aes_key[1]))]

\* re_encrypt_key: [raised, unwrapped, value]; unwrapped tells whether the
\* SRS private key was applied to a ciphertext
re_encrypt_key(encrypted_key_hex, doctor_user_id) ==
    LET srs == get_or_create_srs_key(srsKey)
        raw == FromHex(encrypted_key_hex)
        aes_key == IF raw = <<>> THEN <<>> ELSE Dec(srs.priv, raw[1])
        doctor_pub == get_user_public_key(doctor_user_id)
    IN  IF aes_key = <<>>
        THEN [raised |-> TRUE, unwrapped |-> raw # <<>>, value |-> EmptyStr]
        ELSE IF doctor_pub = NoKeyId
        THEN [raised |-> TRUE, unwrapped |-> TRUE, value |-> EmptyStr]
        ELSE [raised |-> FALSE, unwrapped |-> TRUE,
              value |-> HexOf(Enc(doctor_pub, aes_key[1]))]

----------------------------------------------------------------------------
(* storage/users.py *)

get_user_by_id(user_id) ==
    IF user_id \in DOMAIN users /\ users[user_id] # "" THEN <<users[user_id]>>
    ELSE <<>>

\* as get_user_attributes, but Role is derived only when no row gives it
get_user_attributes_ExplicitRole(user_id) ==
    LET keys == {r[2] : r \in {x \in attrRows : x[1] = user_id}}
        rows == [k \in keys |-> (CHOOSE r \in attrRows :
                                    r[1] = user_id /\ r[2] = k)[3]]
        user == get_user_by_id(user_id)
    IN  IF user = <<>> \/ Str("Role") \in keys THEN rows
        ELSE [k \in keys \cup {Str("Role")} |->
                IF k = Str("Role") THEN Capitalize(user[1]) ELSE rows[k]]

\* get_user_attributes: the rows of the user as a dict, then Role set from
\* the users table whenever the user exists
get_user_attributes(user_id) ==
    LET keys == {r[2] : r \in {x \in attrRows : x[1] = user_id}}
        rows == [k \in keys |-> (CHOOSE r \in attrRows :
                                    r[1] = user_id /\ r[2] = k)[3]]
        user == get_user_by_id(user_id)
    IN  IF user = <<>> THEN rows
        ELSE [k \in keys \cup {Str("Role")} |->
                IF k = Str("Role") THEN Capitalize(user[1]) ELSE rows[k]]

\* add_attribute: INSERT OR REPLACE on the (user_id, key) primary key
add_attribute(rows, user_id, key, value) ==
    {r \in rows : ~(r[1] = user_id /\ r[2] = key)} \cup {<<user_id, key, value>>}

\* remove_attribute
remove_attribute(rows, user_id, key) ==
    {r \in rows : ~(r[1] = user_id /\ r[2] = key)}

----------------------------------------------------------------------------
(* audit/logger.py *)

\* hashlib.sha256(json.dumps(entry, sort_keys=True)): injective, so the
\* digest is the key-sorted serialization
Sha256(entry) ==
    <<entry.action, entry.file, entry.prev_hash, entry.status,
      entry.timestamp, entry.user>>

\* the line log_event writes
LogLine(timestamp, user_id, file_name, action, status, prev_hash) ==
    LET entry == [timestamp |-> timestamp, user |-> user_id,
                  file |-> file_name, action |-> action, status |-> status,
                  prev_hash |-> prev_hash]
    IN  [timestamp |-> timestamp, user |-> user_id, file |-> file_name,
         action |-> action, status |-> status, prev_hash |-> prev_hash,
         hash |-> Sha256(entry)]

\* as LastHash, but the last line is never read
LastHash_NeverRead(lines) == <<>>

\* line 17 raises: the file has a line and the last one is no JSON object
\* (a line written in part, a blank line) or an object without "hash"
LastHashRaises(lines) ==
    lines # <<>> /\ "hash" \notin DOMAIN lines[Len(lines)]

\* json.loads(lines[-1])["hash"], "" when the file has no line
LastHash(lines) == IF lines = <<>> THEN <<>> ELSE lines[Len(lines)].hash

----------------------------------------------------------------------------
(* Handler locals *)

NoMeta ==
    [owner |-> "", file |-> <<>>, policy |-> <<>>, key_blob |-> EmptyStr,
     iv |-> "", mode |-> "", revoked_users |-> <<>>]

\* the body of a response: the JSON fields, or the attachment send_file
\* gives; listed tells that it carries a listing (files, users, log lines)
NoOut ==
    [status |-> "", key_blob |-> EmptyStr, iv |-> "", file_url |-> <<>>,
     body |-> "", public_key |-> NoKeyId, listed |-> FALSE,
     logs |-> <<>>]

\* the form values of an upload request
NoForm == [policy |-> <<>>, key_blob |-> EmptyStr, iv |-> ""]

IdleReq ==
    [op |-> "none", pc |-> "idle", user |-> NoSession, role |-> "",
     file |-> <<>>, path |-> <<>>, m |-> NoMeta, bag |-> <<>>,
     action |-> "", status |-> <<>>, ts |-> 0, prev |-> <<>>,
     unwrapped |-> FALSE, code |-> 0, out |-> NoOut, nlog |-> 0,
     target |-> "", form |-> NoForm]

Free(p) == req[p].pc \in {"idle", "done"}

\* slot p may take a request: fewer than lim were started, and the slots
\* fill in order (slot 2 holds the request that arrives while slot 1 is busy)
CanStart(p, lim) ==
    /\ nreq < lim
    /\ Free(p)
    /\ \A q \in Procs : q < p => ~Free(q)

\* a fresh request of the session (user_id, role)
NewReq(op, caller, filename) ==
    [IdleReq EXCEPT !.op = op, !.user = caller, !.file = filename,
                    !.role = IF caller = NoSession THEN "" ELSE users[caller]]

Respond(r, code) == [r EXCEPT !.pc = "done", !.code = code]

\* the handler calls log_event(user, file, action, status) and then answers
\* with code
CallLog(r, user_id, file_name, action, status, code) ==
    [r EXCEPT !.pc = "logread", !.action = action, !.status = status,
              !.code = code, !.user = user_id, !.file = file_name]

Revoked(m) == {m.revoked_users[i] : i \in 1..Len(m.revoked_users)}

\* dict update of cloud/meta or cloud/data
Put(store, name, value) ==
    [n \in DOMAIN store \cup {name} |-> IF n = name THEN value ELSE store[n]]

----------------------------------------------------------------------------
(* app/api/doctor.py: api_access *)

\* lines 88-96: the metadata path the request opens, <<>> when none exists
AccessMetaPath(filename) ==
    LET meta_filename ==
            IF EndsWith(filename, ".json") THEN filename
            ELSE filename \o <<".json">>
        fallback == filename \o <<".json">>
    IN  IF meta_filename \in DOMAIN meta THEN <<meta_filename>>
        ELSE IF fallback \in DOMAIN meta THEN <<fallback>>
        ELSE <<>>

\* lines 74-100: session and role gate, path lookup, json.load of the record
AccessStart(p, lim, caller, filename) ==
    /\ CanStart(p, lim)
    /\ nreq' = nreq + 1
    /\ LET r == NewReq("access", caller, filename)
           path == AccessMetaPath(filename)
       IN  req' = [req EXCEPT ![p] =
                IF caller = NoSession THEN Respond(r, 401)
                ELSE IF r.role # "doctor" THEN Respond(r, 403)
                ELSE IF filename = <<>> THEN Respond(r, 400)
                ELSE IF path = <<>> THEN Respond(r, 404)
                ELSE [r EXCEPT !.pc = "user", !.path = path[1],
                               !.m = meta[path[1]]]]
    /\ UNCHANGED <<users, attrRows, userKeys, srsKey, meta, data,
                   log, now, ev, session>>

\* lines 102-107: get_user_by_id, get_user_attributes
AccessLoadUser(p) ==
    /\ req[p].op = "access" /\ req[p].pc = "user"
    /\ req' = [req EXCEPT ![p] =
            IF get_user_by_id(req[p].user) = <<>> THEN Respond(req[p], 404)
            ELSE [req[p] EXCEPT !.pc = "decide",
                                !.bag = get_user_attributes(req[p].user)]]
    /\ UNCHANGED <<users, attrRows, userKeys, srsKey, meta, data,
                   log, now, nreq, ev, session>>

\* as AccessDecision, but the revocation list is consulted before the policy
AccessDecision_RevocationFirst(m, bag, user_id) ==
    LET pol == evaluate_policy(bag, m.policy)
        rk == re_encrypt_key(m.key_blob, user_id)
        none == [kind |-> "respond", status |-> <<>>, code |-> 500,
                 crypto |-> FALSE, unwrapped |-> FALSE, key_blob |-> EmptyStr]
    IN  IF user_id \in Revoked(m)
        THEN [none EXCEPT !.kind = "deny", !.code = 403,
                          !.status = Str("DENIED_REVOKED")]
        ELSE IF pol.raised THEN none
        ELSE IF ~pol.value
        THEN [none EXCEPT !.kind = "deny", !.code = 403,
                          !.status = Str("DENIED_POLICY")]
        ELSE IF m.mode # "client_side_encryption"
        THEN [none EXCEPT !.code = 400]
        ELSE IF m.key_blob = EmptyStr THEN none
        ELSE IF rk.raised
        THEN [none EXCEPT !.crypto = TRUE, !.unwrapped = rk.unwrapped]
        ELSE [kind |-> "grant", status |-> Str("GRANTED_RE_ENCRYPT"),
              code |-> 200, crypto |-> TRUE, unwrapped |-> TRUE,
              key_blob |-> rk.value]

\* lines 109-143: what the try block decides from the record and bag read:
\* [kind, status, code, crypto, unwrapped, key_blob]; crypto tells whether
\* re_encrypt_key was called
AccessDecision(m, bag, user_id) ==
    LET pol == evaluate_policy(bag, m.policy)
        rk == re_encrypt_key(m.key_blob, user_id)
        none == [kind |-> "respond", status |-> <<>>, code |-> 500,
                 crypto |-> FALSE, unwrapped |-> FALSE, key_blob |-> EmptyStr]
    IN  IF pol.raised THEN none
        ELSE IF ~pol.value
        THEN [none EXCEPT !.kind = "deny", !.code = 403,
                          !.status = Str("DENIED_POLICY")]
        ELSE IF user_id \in Revoked(m)
        THEN [none EXCEPT !.kind = "deny", !.code = 403,
                          !.status = Str("DENIED_REVOKED")]
        ELSE IF m.mode # "client_side_encryption"
        THEN [none EXCEPT !.code = 400]
        ELSE IF m.key_blob = EmptyStr THEN none
        ELSE IF rk.raised
        THEN [none EXCEPT !.crypto = TRUE, !.unwrapped = rk.unwrapped]
        ELSE [kind |-> "grant", status |-> Str("GRANTED_RE_ENCRYPT"),
              code |-> 200, crypto |-> TRUE, unwrapped |-> TRUE,
              key_blob |-> rk.value]

\* as AccessDecide, but a grant writes the re-wrapped key back to the record
AccessDecide_StoresRewrapped(p) ==
    /\ req[p].op = "access" /\ req[p].pc = "decide"
    /\ LET r == req[p]
           d == AccessDecision(r.m, r.bag, r.user)
           r1 == [r EXCEPT !.unwrapped = d.unwrapped]
       IN  /\ req' = [req EXCEPT ![p] =
                IF d.kind = "respond" THEN Respond(r1, d.code)
                ELSE IF d.kind = "deny"
                THEN CallLog(r1, r.user, r.file, "ACCESS", d.status, d.code)
                ELSE CallLog([r1 EXCEPT !.out =
                                [NoOut EXCEPT !.status = "granted",
                                              !.key_blob = d.key_blob,
                                              !.iv = r.m.iv,
                                              !.file_url = r.m.file]],
                             r.user, r.file, "ACCESS", d.status, d.code)]
           /\ srsKey' = IF d.crypto
                        THEN get_or_create_srs_key(srsKey) ELSE srsKey
           /\ meta' = IF d.kind = "grant"
                      THEN Put(meta, r.path, [r.m EXCEPT !.key_blob = d.key_blob])
                      ELSE meta
    /\ UNCHANGED <<users, attrRows, userKeys, data, log, now, nreq,
                   ev, session>>

\* lines 109-137 as a step: the decision, the response prepared, and the
\* call of log_event for a grant or a denial
AccessDecide(p) ==
    /\ req[p].op = "access" /\ req[p].pc = "decide"
    /\ LET r == req[p]
           d == AccessDecision(r.m, r.bag, r.user)
           r1 == [r EXCEPT !.unwrapped = d.unwrapped]
       IN  /\ req' = [req EXCEPT ![p] =
                IF d.kind = "respond" THEN Respond(r1, d.code)
                ELSE IF d.kind = "deny"
                THEN CallLog(r1, r.user, r.file, "ACCESS", d.status, d.code)
                ELSE CallLog([r1 EXCEPT !.out =
                                [NoOut EXCEPT !.status = "granted",
                                              !.key_blob = d.key_blob,
                                              !.iv = r.m.iv,
                                              !.file_url = r.m.file]],
                             r.user, r.file, "ACCESS", d.status, d.code)]
           /\ srsKey' = IF d.crypto
                        THEN get_or_create_srs_key(srsKey) ELSE srsKey
    /\ UNCHANGED <<users, attrRows, userKeys, meta, data, log, now,
                   nreq, ev, session>>

----------------------------------------------------------------------------
(* audit/logger.py: log_event, as the calling handler runs it *)

\* lines 10-17: the timestamp and the hash of the last line
LogRead(p) ==
    /\ req[p].pc = "logread"
    /\ ~LastHashRaises(log)
    /\ req' = [req EXCEPT ![p] = [req[p] EXCEPT !.pc = "logappend",
                                   !.ts = now, !.prev = LastHash(log)]]
    /\ UNCHANGED <<users, attrRows, userKeys, srsKey, meta, data,
                   log, now, nreq, ev, session>>

\* lines 19-33: the append; then the handler goes on (nlog counts the lines
\* the request has appended)
LogAppend(p) ==
    /\ req[p].pc = "logappend"
    /\ LET r == req[p] IN
       /\ log' = Append(log, LogLine(r.ts, r.user, r.file, r.action,
                                     r.status, r.prev))
       /\ req' = [req EXCEPT ![p] =
                IF r.op = "revoke" /\ r.code = 200
                THEN [r EXCEPT !.pc = "write", !.nlog = r.nlog + 1]
                ELSE [r EXCEPT !.pc = "done", !.nlog = r.nlog + 1]]
    /\ UNCHANGED <<users, attrRows, userKeys, srsKey, meta, data,
                   now, nreq, ev, session>>

\* as LogFailResponse, but the exception is swallowed and the handler's
\* answer is sent as it stood
LogFailResponse_Swallow(r) == [r EXCEPT !.pc = "done"]

\* doctor.py lines 142-143 (and Flask's 500 for the uncaught exception in
\* api_revoke): the answer when log_event raised
LogFailResponse(r) == Respond([r EXCEPT !.out = NoOut], 500)

\* as LogFail, but the revoke handler had rewritten the metadata file before
\* it called log_event
LogFail_AfterWrite(p) ==
    /\ req[p].pc \in {"logread", "logappend"}
    /\ req' = [req EXCEPT ![p] = LogFailResponse(req[p])]
    /\ meta' = IF req[p].op = "revoke" /\ req[p].code = 200
               THEN Put(meta, req[p].path, req[p].m) ELSE meta
    /\ UNCHANGED <<users, attrRows, userKeys, srsKey, data,
                   log, now, nreq, ev, session>>

\* log_event raises (the last line does not parse at line 17, or open/write
\* fails at lines 14 or 32-33): nothing is appended
LogFail(p) ==
    /\ req[p].pc \in {"logread", "logappend"}
    /\ req' = [req EXCEPT ![p] = LogFailResponse(req[p])]
    /\ UNCHANGED <<users, attrRows, userKeys, srsKey, meta, data,
                   log, now, nreq, ev, session>>

----------------------------------------------------------------------------
(* app/api/patient.py: api_revoke *)

\* as RevokedMeta, but the granular form rewrites the policy as well
RevokedMeta_AlsoBlanket(m, revoke_user_id) ==
    [m EXCEPT !.policy = SENTINEL,
              !.revoked_users =
                  IF revoke_user_id = "" \/ revoke_user_id \in Revoked(m)
                  THEN m.revoked_users
                  ELSE Append(m.revoked_users, revoke_user_id)]

\* as RevokedMeta, but the target is appended whether or not it is listed
RevokedMeta_AlwaysAppend(m, revoke_user_id) ==
    IF revoke_user_id # ""
    THEN [m EXCEPT !.revoked_users = Append(m.revoked_users, revoke_user_id)]
    ELSE [m EXCEPT !.policy = SENTINEL]

\* lines 109-121: the record as the handler changes it in memory
RevokedMeta(m, revoke_user_id) ==
    IF revoke_user_id # ""
    THEN [m EXCEPT !.revoked_users =
            IF revoke_user_id \in Revoked(m) THEN m.revoked_users
            ELSE Append(m.revoked_users, revoke_user_id)]
    ELSE [m EXCEPT !.policy = SENTINEL]

\* line 96: the metadata name of the file a revoke request names
RevokeMetaFilename(filename) ==
    IF EndsWith(filename, ".json") THEN filename ELSE filename \o <<".json">>

\* as RevokeAudit, but both forms are logged as the blanket form is
RevokeAudit_AlwaysBlanket(revoke_user_id) ==
    [action |-> "REVOKE", status |-> Str("SUCCESS")]

\* lines 115 and 125: the action and status the revoke is logged with
RevokeAudit(revoke_user_id) ==
    IF revoke_user_id # ""
    THEN [action |-> "REVOKE_USER", status |-> <<"Revoked ", revoke_user_id>>]
    ELSE [action |-> "REVOKE", status |-> Str("SUCCESS")]

\* as OwnerCheck, but every patient passes
OwnerCheck_Skipped(m, caller) == TRUE

\* line 105: meta.get("owner") == session["user_id"]
OwnerCheck(m, caller) == m.owner = caller

\* lines 83-125: gates, json.load of the record, owner check, the change in
\* memory, and the call of log_event
RevokeStart(p, lim, caller, filename, revoke_user_id) ==
    /\ CanStart(p, lim)
    /\ nreq' = nreq + 1
    /\ LET r == [NewReq("revoke", caller, filename) EXCEPT
                    !.target = revoke_user_id]
           meta_filename == RevokeMetaFilename(filename)
           audit == RevokeAudit(revoke_user_id)
       IN  req' = [req EXCEPT ![p] =
                IF caller = NoSession THEN Respond(r, 401)
                ELSE IF r.role # "patient" THEN Respond(r, 403)
                ELSE IF filename = <<>> THEN Respond(r, 400)
                ELSE IF meta_filename \notin DOMAIN meta THEN Respond(r, 404)
                ELSE IF ~OwnerCheck(meta[meta_filename], caller)
                THEN CallLog([r EXCEPT !.path = meta_filename,
                                       !.m = meta[meta_filename]],
                             caller, filename, "ACCESS",
                             Str("DENIED_OWNER"), 403)
                ELSE CallLog([r EXCEPT !.path = meta_filename,
                                !.m = RevokedMeta(meta[meta_filename],
                                                  revoke_user_id)],
                             caller, filename, audit.action, audit.status,
                             200)]
    /\ UNCHANGED <<users, attrRows, userKeys, srsKey, meta, data,
                   log, now, ev, session>>

\* lines 127-130: json.dump of the changed record, after log_event returned
RevokeWrite(p) ==
    /\ req[p].op = "revoke" /\ req[p].pc = "write"
    /\ meta' = Put(meta, req[p].path, req[p].m)
    /\ req' = [req EXCEPT ![p] = [req[p] EXCEPT !.pc = "done",
                                   !.out = [NoOut EXCEPT !.status = "revoked"]]]
    /\ UNCHANGED <<users, attrRows, userKeys, srsKey, data, log, now,
                   nreq, ev, session>>

----------------------------------------------------------------------------
(* app/api/patient.py: api_upload, and storage/phr.py: store_encrypted_phr *)

\* phr.py lines 38-44: blob name and metadata name of an uploaded file
EncFilename(original_filename) ==
    IF EndsWith(original_filename, ".enc") THEN original_filename
    ELSE original_filename \o <<".enc">>

MetaPath(enc_filename) == Remove(enc_filename, ".enc") \o <<".json">>

\* as UploadMetadata, but without the mode tag (as store_phr wrote records)
UploadMetadata_NoMode(owner_id, enc_filename, policy, key_blob, iv) ==
    [owner |-> owner_id, file |-> enc_filename, policy |-> policy,
     key_blob |-> key_blob, iv |-> iv, mode |-> "", revoked_users |-> <<>>]

\* phr.py lines 51-58: the metadata dict; it has no "revoked_users" key,
\* which meta.get("revoked_users", []) reads as the empty list
UploadMetadata(owner_id, enc_filename, policy, key_blob, iv) ==
    [owner |-> owner_id, file |-> enc_filename, policy |-> policy,
     key_blob |-> key_blob, iv |-> iv, mode |-> "client_side_encryption",
     revoked_users |-> <<>>]

\* patient.py lines 58-70 and phr.py lines 27-58: role gate, form check,
\* file_storage.save of the blob, the metadata dict
UploadStart(p, lim, caller, filename, policy, key_blob, iv, bytes) ==
    /\ CanStart(p, lim)
    /\ nreq' = nreq + 1
    /\ LET r == [NewReq("upload", caller, filename) EXCEPT
                    !.form = [policy |-> policy, key_blob |-> key_blob,
                              iv |-> iv]]
           stored == r.role = "patient" /\ key_blob # EmptyStr /\ iv # ""
           enc_filename == EncFilename(filename)
       IN  /\ req' = [req EXCEPT ![p] =
                IF r.role # "patient" THEN Respond(r, 403)
                ELSE IF key_blob = EmptyStr \/ iv = "" THEN Respond(r, 400)
                ELSE [r EXCEPT !.pc = "writemeta",
                        !.path = MetaPath(enc_filename),
                        !.m = UploadMetadata(caller, enc_filename, policy,
                                             key_blob, iv)]]
           /\ data' = IF stored THEN Put(data, enc_filename, bytes) ELSE data
    /\ UNCHANGED <<users, attrRows, userKeys, srsKey, meta, log, now,
                   ev, session>>

\* phr.py lines 60-63: json.dump of the metadata; then the 200 response
UploadWriteMeta(p) ==
    /\ req[p].op = "upload" /\ req[p].pc = "writemeta"
    /\ meta' = Put(meta, req[p].path, req[p].m)
    /\ req' = [req EXCEPT ![p] = Respond(req[p], 200)]
    /\ UNCHANGED <<users, attrRows, userKeys, srsKey, data, log, now,
                   nreq, ev, session>>

----------------------------------------------------------------------------
(* app/api/admin.py: api_attributes *)

AdminAttributes(p, lim, caller, action, target_user_id, key, value) ==
    /\ CanStart(p, lim)
    /\ nreq' = nreq + 1
    /\ LET r == NewReq("attributes", caller, <<>>)
           allowed == caller # NoSession /\ r.role = "admin"
           valid == action \in {"add", "remove"} /\ target_user_id # ""
                    /\ key # <<>> /\ (action = "add" => value # <<>>)
       IN  /\ req' = [req EXCEPT ![p] =
                IF ~allowed THEN Respond(r, 403)
                ELSE IF ~valid THEN Respond(r, 400)
                ELSE Respond(r, 200)]
           /\ attrRows' =
                IF ~(allowed /\ valid) THEN attrRows
                ELSE IF action = "add"
                THEN add_attribute(attrRows, target_user_id, key, value)
                ELSE remove_attribute(attrRows, target_user_id, key)
    /\ UNCHANGED <<users, userKeys, srsKey, meta, data, log, now, ev, session>>

----------------------------------------------------------------------------
(* app/api/debug.py: api_gen_keys (FLASK_ENV = development, run.py:5) *)

GenKeys(p, lim, user_id) ==
    /\ CanStart(p, lim)
    /\ userKeys[user_id][2] < MaxKeyVer
    /\ nreq' = nreq + 1
    /\ req' = [req EXCEPT ![p] = Respond(NewReq("genkeys", NoSession, <<>>), 200)]
    /\ userKeys' = generate_user_keys(userKeys, user_id)
    /\ UNCHANGED <<users, attrRows, srsKey, meta, data, log, now, ev, session>>

----------------------------------------------------------------------------
(* Identity store: app/api/auth.py api_signup, web/app.py api_signup,      *)
(* storage/users.py create_user and create_admin_user                      *)

\* uuid.uuid4(): an id no row has
FreshId == IdOrder[Cardinality({u \in UserIds : users[u] # ""}) + 1]

\* create_user: the users table after the INSERT; no attribute row
create_user(table, user_id, role) == [table EXCEPT ![user_id] = role]

\* as ApiSignup, but the "attributes" field of the body is stored for the
\* new user
ApiSignup_StoresAttributes(role, attributes) ==
    /\ nreq < MaxReqId
    /\ \E u \in UserIds : users[u] = ""
    /\ nreq' = nreq + 1
    /\ IF role \in {"patient", "doctor"}
       THEN /\ users' = create_user(users, FreshId, role)
            /\ userKeys' = generate_user_keys(userKeys, FreshId)
            /\ attrRows' = attrRows \cup
                               {<<FreshId, a[1], a[2]>> : a \in attributes}
       ELSE UNCHANGED <<users, userKeys, attrRows>>
    /\ UNCHANGED <<srsKey, meta, data, log, now, req, ev, session>>

\* auth.py lines 10-45: role gate, create_user, generate_user_keys; of the
\* JSON body only name, email, password and role are read, so its
\* "attributes" field (a set of <<key, value>>) goes nowhere
ApiSignup(role, attributes) ==
    /\ nreq < MaxReqId
    /\ \E u \in UserIds : users[u] = ""
    /\ nreq' = nreq + 1
    /\ IF role \in {"patient", "doctor"}
       THEN /\ users' = create_user(users, FreshId, role)
            /\ userKeys' = generate_user_keys(userKeys, FreshId)
       ELSE UNCHANGED <<users, userKeys>>
    /\ UNCHANGED <<attrRows, srsKey, meta, data, log, now, req, ev,
                   session>>

\* web/app.py lines 112-165: the same gate and create_user, no key pair
WebApiSignup(role) ==
    /\ nreq < MaxReqId
    /\ \E u \in UserIds : users[u] = ""
    /\ nreq' = nreq + 1
    /\ IF role \in {"patient", "doctor"}
       THEN users' = create_user(users, FreshId, role)
       ELSE UNCHANGED users
    /\ UNCHANGED <<attrRows, userKeys, srsKey, meta, data, log, now,
                   req, ev, session>>

\* users.py lines 46-53, run by create_admin.py
CreateAdminUser ==
    /\ nreq < MaxReqId
    /\ \E u \in UserIds : users[u] = ""
    /\ nreq' = nreq + 1
    /\ users' = create_user(users, FreshId, "admin")
    /\ UNCHANGED <<attrRows, userKeys, srsKey, meta, data, log, now,
                   req, ev, session>>

\* storage/users.py add_attribute / remove_attribute as the admin endpoint
\* and cli/main.py call them: any user id, any key, any value
StoreAttribute(action, user_id, key, value) ==
    /\ nreq < MaxReqId
    /\ nreq' = nreq + 1
    /\ attrRows' = IF action = "add"
                   THEN add_attribute(attrRows, user_id, key, value)
                   ELSE remove_attribute(attrRows, user_id, key)
    /\ UNCHANGED <<users, userKeys, srsKey, meta, data, log, now,
                   req, ev, session>>

----------------------------------------------------------------------------
(* The clock *)

Tick ==
    /\ now < MaxTime
    /\ now' = now + 1
    /\ UNCHANGED <<users, attrRows, userKeys, srsKey, meta, data,
                   log, req, nreq, ev, session>>

----------------------------------------------------------------------------
(* Inputs the requests are drawn from *)

AccessInputs ==
    {<<"d1", FileF>>, <<"d2", FileF>>, <<"d1", <<"g">> >>,
     <<"p1", FileF>>, <<NoSession, FileF>>}

\* <<caller, filename, revoke_user_id>>; "" asks for the blanket form
RevokeInputs ==
    {<<"p1", FileF, "d1">>, <<"p1", FileF, "d2">>, <<"p1", FileF, "">>,
     <<"p2", FileF, "d1">>, <<"p2", FileF, "">>, <<"p2", <<"g">>, "d1">>,
     <<"d1", FileF, "d2">>}

\* <<caller, filename, policy, key sealed to the SRS (or not), iv, bytes>>
UploadInputs ==
    {<<"p1", FileF, PolRoleDoctor, TRUE, "iv1", "b1">>,
     <<"p1", FileF, PolDeptNone, TRUE, "iv1", "b1">>,
     <<"p2", FileF, PolRoleDept, FALSE, "iv2", "b2">>,
     <<"p2", FileG, PolRoleDoctor, TRUE, "iv2", "b2">>,
     <<"d1", FileF, PolRoleDoctor, TRUE, "iv1", "b1">>}

\* the key_blob form value: hex of RSA-OAEP(SRS public key, K1), or no hex
KeyBlob(sealed) == IF sealed THEN HexOf(Enc(srsKey.pub, "K1")) ELSE NotHex

\* the "attributes" field a signup body may carry: none, or the one of
\* verify_contracts.py
SignupAttributes ==
    {{}, {<<Str("Role"), Str("Admin")>>, <<Str("Dept"), Str("Cardiology")>>}}

\* <<caller, action, user_id, key, value>>
AttributeInputs ==
    {<<"a1", "add", "d1", Str("Dept"), Str("Cardio")>>,
     <<"a1", "remove", "d1", Str("Dept"), <<>> >>,
     <<"d1", "add", "d1", Str("Dept"), Str("Cardio")>>}

----------------------------------------------------------------------------
(* Specifications *)

\* no call of evaluate_policy is under way
NoEval ==
    [attributes |-> <<>>, policy_str |-> <<>>, called |-> FALSE,
     raised |-> FALSE, value |-> FALSE]

InitStores ==
    /\ attrRows = {}
    /\ meta = <<>>
    /\ data = <<>>
    /\ log = <<>>
    /\ now = 0
    /\ req = [p \in Procs |-> IdleReq]
    /\ nreq = 0
    /\ session = NoCookie

\* a deployment after bootstrap: p1 and d1 signed up through auth.py, p2 and
\* d2 through web/app.py, a1 made by create_admin.py, and the SRS pair made
\* by the first GET /api/srs/public-key
Init ==
    /\ users = [u \in UserIds |->
                  IF u \in Patients THEN "patient"
                  ELSE IF u \in Doctors THEN "doctor" ELSE "admin"]
    /\ userKeys = [u \in UserIds |->
                     IF u \in {"p1", "d1"} THEN <<u, 1>> ELSE NoKeyId]
    /\ srsKey = [priv |-> SrsKeyId, pub |-> SrsKeyId]
    /\ InitStores
    /\ ev = NoEval

\* a request arrives in slot p
Request(p, lim) ==
    \/ \E i \in AccessInputs : AccessStart(p, lim, i[1], i[2])
    \/ \E i \in RevokeInputs : RevokeStart(p, lim, i[1], i[2], i[3])
    \/ \E i \in UploadInputs :
          UploadStart(p, lim, i[1], i[2], i[3], KeyBlob(i[4]), i[5], i[6])
    \/ \E i \in AttributeInputs :
          AdminAttributes(p, lim, i[1], i[2], i[3], i[4], i[5])
    \/ \E u \in Doctors : GenKeys(p, lim, u)

\* a handler in slot p goes on
Step(p) ==
    \/ AccessLoadUser(p)
    \/ AccessDecide(p)
    \/ LogRead(p)
    \/ LogAppend(p)
    \/ RevokeWrite(p)
    \/ UploadWriteMeta(p)

\* parallel request handling
Next ==
    \/ \E p \in Procs : Request(p, MaxReqConc)
    \/ \E p \in Procs : Step(p)
    \/ Tick

Spec == Init /\ [][Next]_vars

\* one request at a time
NextSeq ==
    \/ Request(1, MaxReqSeq)
    \/ Step(1)
    \/ Tick

SpecSeq == Init /\ [][NextSeq]_vars

\* one request at a time, on a host where log_event may raise
NextFail ==
    \/ Request(1, MaxReqSeq)
    \/ Step(1)
    \/ LogFail(1)
    \/ Tick

SpecFail == Init /\ [][NextFail]_vars

\* the identity and attribute stores from an empty database
InitId ==
    /\ users = [u \in UserIds |-> ""]
    /\ userKeys = [u \in UserIds |-> NoKeyId]
    /\ srsKey = [priv |-> NoKeyId, pub |-> NoKeyId]
    /\ InitStores
    /\ ev = NoEval

NextId ==
    \/ \E role \in {"patient", "doctor", "admin"}, a \in SignupAttributes :
          ApiSignup(role, a)
    \/ \E role \in {"patient", "doctor"} : WebApiSignup(role)
    \/ CreateAdminUser
    \/ \E a \in {"add", "remove"}, u \in {"p1", "d1", "zz"},
          k \in {Str("Role"), Str("Dept")},
          v \in {Str("__REVOKED__"), Str("Doctor")} :
          StoreAttribute(a, u, k, v)

SpecId == InitId /\ [][NextId]_vars

----------------------------------------------------------------------------
(* policy/parser.py on its own: one call of evaluate_policy *)

\* "k:v" and "c1 AND c2" as the strings a client writes them
Clause(k, v) == <<k, ":", v>>
Conj(c1, c2) == c1 \o <<" ", "AND", " ">> \o c2

PolicyKeys == {"Role", "Dept"}
PolicyValues == {"Doctor", "None"}
BagValues == {"Doctor", "doctor", "None"}

\* user.attributes: every dict over the keys with the values
EvalBags ==
    UNION {[K -> {Str(v) : v \in BagValues}] :
              K \in SUBSET {Str(k) : k \in PolicyKeys}}

\* policies of one or two clauses of the grammar
GrammarPolicies ==
    LET clauses == {Clause(k, v) : k \in PolicyKeys, v \in PolicyValues}
    IN  clauses \cup {Conj(c1, c2) : c1 \in clauses, c2 \in clauses}

\* strings outside the grammar: "", "Role", "Role:Doctor:Doctor",
\* "Role:Doctor AND", "Role:BRAND", ":None", "9x:Doctor", "Dept:"
EmptyPolicy == <<>>
NoColon == <<"Role">>
TwoColons == <<"Role", ":", "Doctor", ":", "Doctor">>
TrailingAnd == <<"Role", ":", "Doctor", " ", "AND">>
TokenWithAnd == <<"Role", ":", "BR", "AND">>
EmptyKey == <<":", "None">>
DigitKey == <<"9x", ":", "Doctor">>
EmptyValue == <<"Dept", ":">>

\* the ways of being malformed that raise in parse_policy
RaisingPolicies ==
    {EmptyPolicy, NoColon, TwoColons, TrailingAnd, TokenWithAnd}

MalformedPolicies == RaisingPolicies \cup {EmptyKey, DigitKey, EmptyValue}

InitEval ==
    /\ users = [u \in UserIds |-> ""]
    /\ userKeys = [u \in UserIds |-> NoKeyId]
    /\ srsKey = [priv |-> NoKeyId, pub |-> NoKeyId]
    /\ InitStores
    /\ \E A \in EvalBags, P \in GrammarPolicies \cup MalformedPolicies :
          ev = [NoEval EXCEPT !.attributes = A, !.policy_str = P]

\* evaluate_policy(user, policy_str) is called and returns or raises
Evaluate ==
    /\ ~ev.called
    /\ LET r == evaluate_policy(ev.attributes, ev.policy_str)
       IN  ev' = [ev EXCEPT !.called = TRUE, !.raised = r.raised,
                            !.value = r.value]
    /\ UNCHANGED <<users, attrRows, userKeys, srsKey, meta, data, log, now,
                   req, nreq, session>>

SpecEval == InitEval /\ [][Evaluate]_vars

----------------------------------------------------------------------------
(* Objects stored under any policy string, one request at a time *)

\* the policy form values p1 uploads f with
UploadedPolicies == MalformedPolicies \cup {PolRoleDoctor, PolDeptNone}

\* an upload of f by p1, an attribute row for d1 set by the admin, or an
\* access to f by a doctor
RequestPol ==
    \/ \E P \in UploadedPolicies :
          UploadStart(1, MaxReqPol, "p1", FileF, P, KeyBlob(TRUE), "iv1", "b1")
    \/ \E k \in {"9x", "Dept"} :
          AdminAttributes(1, MaxReqPol, "a1", "add", "d1", Str(k),
                          Str("Doctor"))
    \/ \E d \in Doctors : AccessStart(1, MaxReqPol, d, FileF)

NextPol ==
    \/ RequestPol
    \/ UploadWriteMeta(1)
    \/ AccessLoadUser(1)
    \/ AccessDecide(1)
    \/ LogRead(1)
    \/ LogAppend(1)

SpecPol == Init /\ [][NextPol]_vars

----------------------------------------------------------------------------
(* Section 4.2 of the specification: when a bag satisfies a policy *)

\* the clauses of a policy as the grammar reads it: <<fields of clause>>
Clauses(policy) ==
    LET parts == SplitOn(policy, "AND")
    IN  [i \in 1..Len(parts) |-> SplitOn(Strip(parts[i]), ":")]

\* key := [A-Za-z_][A-Za-z0-9_]*: the tokens that are no identifier
NotIdentifier == {" ", "9x"}

\* policy := clause ("AND" clause)*, clause := key ":" value, one token each
WellFormed(policy) ==
    \A i \in 1..Len(Clauses(policy)) :
        LET c == Clauses(policy)[i]
        IN  Len(c) = 2 /\ Len(c[1]) = 1 /\ Len(c[2]) = 1
            /\ c[1][1] \notin NotIdentifier /\ c[2][1] # " "

\* satisfied iff every clause's key is in the bag with exactly that value
Satisfies(bag, policy) ==
    /\ WellFormed(policy)
    /\ \A i \in 1..Len(Clauses(policy)) :
          LET c == Clauses(policy)[i]
          IN  c[1] \in DOMAIN bag /\ bag[c[1]] = c[2]

GRANTED == Str("GRANTED_RE_ENCRYPT")
DENIED_POLICY == Str("DENIED_POLICY")
DENIED_REVOKED == Str("DENIED_REVOKED")

\* slot p holds an access request that was answered with a re-wrapped key
Granted(p) ==
    /\ req[p].op = "access" /\ req[p].pc = "done"
    /\ req[p].code = 200 /\ req[p].out.status = "granted"

\* slot p holds an access request that went through the decision of
\* doctor.py lines 109-143
Decided(p) ==
    /\ req[p].op = "access" /\ req[p].path # <<>>
    /\ req[p].pc \in {"logread", "logappend", "done"}
    /\ req[p].code # 404

----------------------------------------------------------------------------
(* C1 *)

\* C1: a key is returned to caller U for object O only if, in the record
\* the request read, U's attribute bag satisfied O.policy and U was not in
\* O.revoked_users.
C1_GrantOnlyIfSatisfied ==
    \A p \in Procs :
        Granted(p) =>
            /\ Satisfies(req[p].bag, req[p].m.policy)
            /\ req[p].user \notin Revoked(req[p].m)

\* The broker's own guard, with the evaluator's verdict in place of
\* satisfaction: it holds in every interleaving, so C1 fails through
\* evaluate_policy alone.
BrokerGuard ==
    \A p \in Procs :
        Granted(p) =>
            /\ evaluate_policy(req[p].bag, req[p].m.policy).value
            /\ req[p].user \notin Revoked(req[p].m)

----------------------------------------------------------------------------
(* C2 *)

\* the request in slot p is one C2 speaks of: a doctor who satisfies the
\* policy of a record sealed to the SRS key, is not revoked, has a key pair
C2_Case(p) ==
    /\ req[p].op = "access" /\ req[p].pc = "done" /\ req[p].path # <<>>
    /\ req[p].role = "doctor"
    /\ req[p].m.key_blob.hex /\ req[p].m.key_blob.bytes.pk = srsKey.pub
    /\ srsKey.pub # NoKeyId
    /\ Satisfies(req[p].bag, req[p].m.policy)
    /\ req[p].user \notin Revoked(req[p].m)
    /\ userKeys[req[p].user] # NoKeyId

\* C2: for such a request the response's key_blob decrypts under the
\* caller's private key to exactly the K the owner sealed, and the iv is the
\* one stored.
C2_RewrapRoundTrip ==
    \A p \in Procs :
        C2_Case(p) =>
            /\ Granted(p)
            /\ FromHex(req[p].out.key_blob) # <<>>
            /\ Dec(userKeys[req[p].user], FromHex(req[p].out.key_blob)[1])
                  = <<req[p].m.key_blob.bytes.k>>
            /\ req[p].out.iv = req[p].m.iv

C2_Witness == \E p \in Procs : C2_Case(p) /\ Granted(p)

----------------------------------------------------------------------------
(* C3 *)

\* C3: policy check, then revocation check, then unwrap: a request audited
\* DENIED_POLICY or DENIED_REVOKED never applied the SRS private key, a
\* request that applied it had passed both checks, and a caller who fails
\* the policy check and is revoked is audited DENIED_POLICY.
C3_StageOrder ==
    \A p \in Procs :
        Decided(p) =>
            LET r == req[p]
                pol == evaluate_policy(r.bag, r.m.policy)
            IN  /\ r.status \in {DENIED_POLICY, DENIED_REVOKED} => ~r.unwrapped
                /\ r.unwrapped =>
                      ~pol.raised /\ pol.value /\ r.user \notin Revoked(r.m)
                /\ (~pol.raised /\ ~pol.value /\ r.user \in Revoked(r.m)) =>
                      r.status = DENIED_POLICY
                /\ (r.pc = "done" /\ r.status # <<>>) =>
                      \E i \in 1..Len(log) :
                          /\ log[i].user = r.user /\ log[i].file = r.file
                          /\ log[i].action = "ACCESS"
                          /\ log[i].status = r.status

\* a revoked caller who fails the policy check was answered and audited
C3_Witness ==
    \E p \in Procs :
        /\ Decided(p) /\ req[p].pc = "done"
        /\ req[p].user \in Revoked(req[p].m)
        /\ ~evaluate_policy(req[p].bag, req[p].m.policy).value
        /\ req[p].status = DENIED_POLICY

----------------------------------------------------------------------------
(* C4 *)

\* log line i records a completed revoke of the given action on a record
\* that is on disk: no request is still between log_event and json.dump
RevokeLogged(i, action) ==
    /\ log[i].action = action
    /\ RevokeMetaFilename(log[i].file) \in DOMAIN meta
    /\ \A p \in Procs : ~(req[p].op = "revoke" /\ req[p].pc = "write")

\* C4: once a granular revoke by the owner has put target_id into
\* O.revoked_users, target_id stays in it, and no later access by target_id
\* to O is granted.
C4_RevocationMonotonic ==
    \A i \in 1..Len(log) :
        RevokeLogged(i, "REVOKE_USER") =>
            /\ log[i].status[2] \in
                   Revoked(meta[RevokeMetaFilename(log[i].file)])
            /\ \A j \in (i + 1)..Len(log) :
                   (/\ log[j].action = "ACCESS"
                    /\ log[j].file = log[i].file
                    /\ log[j].user = log[i].status[2])
                   => log[j].status # GRANTED

----------------------------------------------------------------------------
(* C5 *)

\* C5: if a REVOKE_USER record for target U on file X precedes an ACCESS
\* record by U on X in the log, that ACCESS record is not a grant.
C5_NoGrantAfterRevokeRecord ==
    \A i \in 1..Len(log) : \A j \in (i + 1)..Len(log) :
        (/\ log[i].action = "REVOKE_USER"
         /\ log[j].action = "ACCESS"
         /\ log[j].file = log[i].file
         /\ log[i].status = <<"Revoked ", log[j].user>>)
        => log[j].status # GRANTED

----------------------------------------------------------------------------
(* C6 *)

\* slot p takes a step of a granular revoke request that passed the owner
\* check
GranularRevokeStep(p) ==
    /\ req'[p] # req[p]
    /\ req'[p].op = "revoke" /\ req'[p].action = "REVOKE_USER"

\* C6: a granular revoke of U on O changes nothing but O.revoked_users, to
\* which it can only add U: every other field of O, every other record, the
\* blobs, and what an access by any other doctor would be answered are the
\* same before and after.
C6_GranularRevokeFrame ==
    [][\A p \in Procs :
          GranularRevokeStep(p) =>
              LET O == req'[p].path
                  U == req'[p].status[2]
              IN  /\ DOMAIN meta' = DOMAIN meta
                  /\ data' = data
                  /\ \A n \in DOMAIN meta : n # O => meta'[n] = meta[n]
                  /\ meta'[O] = [meta[O] EXCEPT
                                   !.revoked_users = meta'[O].revoked_users]
                  /\ Revoked(meta[O]) \subseteq Revoked(meta'[O])
                  /\ Revoked(meta'[O]) \subseteq Revoked(meta[O]) \cup {U}
                  /\ req'[p].pc = "done" => U \in Revoked(meta'[O])
                  /\ \A U2 \in Doctors \ {U} :
                        AccessDecision(meta'[O], get_user_attributes(U2), U2)
                          = AccessDecision(meta[O], get_user_attributes(U2), U2)
      ]_vars

\* a granular revoke has been written, and another doctor would be granted
C6_Witness ==
    \E p \in Procs :
        /\ req[p].op = "revoke" /\ req[p].action = "REVOKE_USER"
        /\ req[p].pc = "done"
        /\ req[p].status[2] \in Revoked(meta[req[p].path])
        /\ \E U2 \in Doctors \ {req[p].status[2]} :
              AccessDecision(meta[req[p].path], get_user_attributes(U2),
                             U2).kind = "grant"

----------------------------------------------------------------------------
(* C7 *)

\* C7: after the owner's blanket revoke of O, O.policy is Role:__REVOKED__
\* and every later access to O by a doctor is audited DENIED_POLICY.
C7_BlanketRevokeFinal ==
    \A i \in 1..Len(log) :
        RevokeLogged(i, "REVOKE") =>
            /\ meta[RevokeMetaFilename(log[i].file)].policy = SENTINEL
            /\ \A j \in (i + 1)..Len(log) :
                   (/\ log[j].action = "ACCESS"
                    /\ log[j].file = log[i].file
                    /\ users[log[j].user] = "doctor")
                   => log[j].status = DENIED_POLICY

----------------------------------------------------------------------------
(* C8 *)

\* C8: no user's bag, as get_user_attributes returns it, satisfies
\* Role:__REVOKED__, neither by the grammar nor in the evaluator's verdict.
C8_SentinelNeverSatisfied ==
    \A u \in UserIds :
        get_user_by_id(u) # <<>> =>
            /\ ~Satisfies(get_user_attributes(u), SENTINEL)
            /\ ~evaluate_policy(get_user_attributes(u), SENTINEL).value

\* a user whose stored Role row carries the sentinel token
C8_Witness ==
    \E u \in UserIds :
        /\ get_user_by_id(u) # <<>>
        /\ <<u, Str("Role"), Str("__REVOKED__")>> \in attrRows

----------------------------------------------------------------------------
(* C9 *)

\* C9: the log is a hash chain: the first record has prev_hash "", every
\* other record has the hash of the record before it as prev_hash, and every
\* hash is H of the record's other six fields.
C9_HashChain ==
    \A n \in 1..Len(log) :
        /\ log[n].prev_hash = IF n = 1 THEN <<>> ELSE log[n - 1].hash
        /\ log[n].hash = Sha256([timestamp |-> log[n].timestamp,
                                  user |-> log[n].user,
                                  file |-> log[n].file,
                                  action |-> log[n].action,
                                  status |-> log[n].status,
                                  prev_hash |-> log[n].prev_hash])

\* three records, written by log_event calls of different handlers
C9_Witness ==
    /\ Len(log) >= 3
    /\ \E i, j \in 1..Len(log) : log[i].action # log[j].action

----------------------------------------------------------------------------
(* C10 *)

\* C10: the log never holds two records with the same prev_hash.
C10_DistinctPrevHash ==
    \A i \in 1..Len(log) : \A j \in (i + 1)..Len(log) :
        log[i].prev_hash # log[j].prev_hash

----------------------------------------------------------------------------
(* C11 *)

\* the statuses an access request may be audited with; GRANTED_RE_ENCRYPT is
\* the code's spelling of the grant
AccessStatuses ==
    {GRANTED, DENIED_POLICY, DENIED_REVOKED, Str("DENIED_ROLE"),
     Str("DENIED_AUTH"), Str("INVALID_REQUEST")}

\* slot p holds an answered access request that names a stored object
AccessOnStored(p) ==
    /\ req[p].op = "access" /\ req[p].pc = "done"
    /\ req[p].file # <<>> /\ AccessMetaPath(req[p].file) # <<>>

\* C11: every access request that names a stored object has appended exactly
\* one audit record when it is answered, with a status of the access set.
C11_OneAuditRecord ==
    \A p \in Procs :
        AccessOnStored(p) =>
            /\ req[p].nlog = 1
            /\ req[p].status \in AccessStatuses

----------------------------------------------------------------------------
(* C12 *)

\* slot p holds an answered access request whose log_event call raised
AccessLogFailed(p) ==
    /\ req[p].op = "access" /\ req[p].pc = "done"
    /\ req[p].action = "ACCESS" /\ req[p].nlog = 0

\* C12: an access request whose log_event raised is answered with an error
\* that carries no key, and a response that carries a key was sent after its
\* GRANTED record was appended.
C12_NoKeyWithoutAuditRecord ==
    \A p \in Procs :
        /\ AccessLogFailed(p) =>
              /\ req[p].code >= 400
              /\ req[p].out.status # "granted"
              /\ req[p].out.key_blob = EmptyStr
        /\ (req[p].op = "access" /\ req[p].pc = "done"
                /\ req[p].out.key_blob # EmptyStr) =>
              /\ req[p].nlog = 1
              /\ \E i \in 1..Len(log) :
                    log[i] = LogLine(req[p].ts, req[p].user, req[p].file,
                                     "ACCESS", GRANTED, req[p].prev)

\* an access that had passed every check when log_event raised
C12_Witness ==
    \E p \in Procs :
        /\ AccessLogFailed(p)
        /\ req[p].status = GRANTED
        /\ AccessDecision(req[p].m, req[p].bag, req[p].user).kind = "grant"

----------------------------------------------------------------------------
(* C13 *)

\* C13: for a bag A and a policy of the grammar, evaluate_policy returns
\* true iff every key of the policy is a key of A whose value is the
\* clause's value; a clause whose key A lacks is never satisfied.
C13_EvaluateIffSatisfied ==
    (ev.called /\ WellFormed(ev.policy_str)) =>
        /\ ~ev.raised
        /\ ev.value = Satisfies(ev.attributes, ev.policy_str)

\* On bags that hold every key the policy names, the evaluator and the
\* grammar agree: C13 fails through the absent key alone.
EvaluateOnPresentKeys ==
    (/\ ev.called /\ WellFormed(ev.policy_str)
     /\ \A i \in 1..Len(Clauses(ev.policy_str)) :
           Clauses(ev.policy_str)[i][1] \in DOMAIN ev.attributes) =>
        /\ ~ev.raised
        /\ ev.value = Satisfies(ev.attributes, ev.policy_str)

----------------------------------------------------------------------------
(* C14 *)

\* C14: no access request is granted a key for an object whose stored policy
\* is not a policy of the grammar.
C14_MalformedPolicyNeverGranted ==
    \A p \in Procs : Granted(p) => WellFormed(req[p].m.policy)

\* The strings on which parse_policy raises are never granted: C14 fails
\* only through strings outside the grammar that parse_policy accepts.
RaisingPolicyNeverGranted ==
    \A p \in Procs : Granted(p) => req[p].m.policy \notin RaisingPolicies

----------------------------------------------------------------------------
(* C15 *)

\* C15: evaluate_policy never raises, and on a string outside the grammar it
\* returns "not satisfied".
C15_EvaluatorTotal ==
    ev.called =>
        /\ ~ev.raised
        /\ ~WellFormed(ev.policy_str) => ~ev.value

----------------------------------------------------------------------------
(* C16 *)

\* slot p holds an answered access request of a doctor that names an object
\* without a metadata record
AccessOnMissing(p) ==
    /\ req[p].op = "access" /\ req[p].pc = "done"
    /\ req[p].role = "doctor" /\ req[p].file # <<>>
    /\ AccessMetaPath(req[p].file) = <<>>

\* C16: such a request is answered 404 and has appended exactly one audit
\* record, with action ACCESS and status INVALID_REQUEST.
C16_NotFoundAudited ==
    \A p \in Procs :
        AccessOnMissing(p) =>
            /\ req[p].code = 404
            /\ req[p].nlog = 1
            /\ \E i \in 1..Len(log) :
                  /\ log[i].user = req[p].user /\ log[i].file = req[p].file
                  /\ log[i].action = "ACCESS"
                  /\ log[i].status = Str("INVALID_REQUEST")

----------------------------------------------------------------------------
(* C17 *)

\* the request r is a revoke by a patient who is not the owner in the record
\* the handler read
NonOwnerRevoke(r) ==
    /\ r.op = "revoke" /\ r.role = "patient"
    /\ r.path # <<>> /\ r.m.owner # r.user

\* C17: a revoke by a patient who is not the owner is answered 403 after
\* exactly one audit record with status DENIED_OWNER, and no step of it
\* changes any record.
C17_NonOwnerRevokeRejected ==
    /\ [](\A p \in Procs :
            (NonOwnerRevoke(req[p]) /\ req[p].pc = "done") =>
                /\ req[p].code = 403
                /\ req[p].out.status # "revoked"
                /\ req[p].nlog = 1
                /\ \E i \in 1..Len(log) :
                      /\ log[i].user = req[p].user
                      /\ log[i].file = req[p].file
                      /\ log[i].status = Str("DENIED_OWNER"))
    /\ [][\A p \in Procs :
            (req'[p] # req[p] /\ NonOwnerRevoke(req'[p])) => meta' = meta
        ]_vars

\* two revokes by a patient who is not the owner were audited, and one of
\* them is answered
C17_Witness ==
    \E p \in Procs :
        /\ NonOwnerRevoke(req[p]) /\ req[p].pc = "done" /\ req[p].code = 403
        /\ \E i, j \in 1..Len(log) :
              /\ i # j
              /\ log[i].status = Str("DENIED_OWNER")
              /\ log[j].status = Str("DENIED_OWNER")

----------------------------------------------------------------------------
(* C18 *)

\* slot p holds a revoke that was answered 200 "revoked"
SuccessfulRevoke(p) ==
    /\ req[p].op = "revoke" /\ req[p].pc = "done"
    /\ req[p].code = 200 /\ req[p].out.status = "revoked"

\* the request in slot p appended exactly one audit record, this one
AppendedOnly(p, action, status) ==
    /\ req[p].nlog = 1
    /\ \E i \in 1..Len(log) :
          log[i] = LogLine(req[p].ts, req[p].user, req[p].file, action,
                           status, req[p].prev)

\* C18 as stated: every successful revoke by the owner appends exactly one
\* audit record with status SUCCESS, and action REVOKE_USER for the granular
\* form, REVOKE for the blanket form.
C18_RevokeAuditSuccess ==
    \A p \in Procs :
        SuccessfulRevoke(p) =>
            AppendedOnly(p,
                         IF req[p].target # "" THEN "REVOKE_USER" ELSE "REVOKE",
                         Str("SUCCESS"))

\* C18 as amended: every successful revoke by the owner appends exactly one
\* audit record; for the granular form its action is REVOKE_USER and its
\* status is "Revoked <target id>", for the blanket form its action is REVOKE
\* and its status is SUCCESS.
C18_RevokeAudit ==
    \A p \in Procs :
        SuccessfulRevoke(p) =>
            /\ req[p].m.owner = req[p].user
            /\ IF req[p].target # ""
               THEN AppendedOnly(p, "REVOKE_USER",
                                 <<"Revoked ", req[p].target>>)
               ELSE AppendedOnly(p, "REVOKE", Str("SUCCESS"))

\* a granular revoke was answered while the log holds a blanket one
C18_Witness ==
    /\ \E p \in Procs : SuccessfulRevoke(p) /\ req[p].target # ""
    /\ \E i \in 1..Len(log) : log[i].action = "REVOKE"

----------------------------------------------------------------------------
(* C19 *)

\* C19: the owner of a record is the session user of the request that
\* created it: no step removes a record or changes its owner.
C19_OwnerImmutable ==
    [][\A n \in DOMAIN meta :
          n \in DOMAIN meta' /\ meta'[n].owner = meta[n].owner]_vars

----------------------------------------------------------------------------
(* C20 *)

\* slot p holds an upload of a patient that was answered 200
SuccessfulUpload(p) ==
    /\ req[p].op = "upload" /\ req[p].pc = "done"
    /\ req[p].role = "patient" /\ req[p].code = 200

\* C20: after a successful upload by patient u the record of the object has
\* owner u, the policy, key_blob and iv of the form unchanged, mode
\* client_side_encryption and an empty revocation list.
C20_UploadRecord ==
    \A p \in Procs :
        SuccessfulUpload(p) =>
            LET name == MetaPath(EncFilename(req[p].file)) IN
            /\ name \in DOMAIN meta
            /\ meta[name].owner = req[p].user
            /\ meta[name].policy = req[p].form.policy
            /\ meta[name].key_blob = req[p].form.key_blob
            /\ meta[name].iv = req[p].form.iv
            /\ meta[name].mode = "client_side_encryption"
            /\ Revoked(meta[name]) = {}

\* an upload over a record that had a revoked user, with a key_blob that is
\* no hex string, was answered
C20_Witness ==
    \E p \in Procs :
        /\ SuccessfulUpload(p)
        /\ req[p].form.key_blob = NotHex
        /\ \E i \in 1..Len(log) :
              log[i].action = "REVOKE_USER" /\ log[i].file = req[p].file

----------------------------------------------------------------------------
(* app/api/doctor.py: api_download_file, and the blob store on its own *)

\* as send_file, but the attachment is cut off before its first byte
send_file_Truncated(filename) == ""

\* line 154: the attachment is the content of cloud/data/<filename>
send_file(filename) == data[filename]

\* lines 145-154: role gate, existence of the blob, the attachment
Download(p, lim, caller, filename) ==
    /\ CanStart(p, lim)
    /\ nreq' = nreq + 1
    /\ LET r == NewReq("download", caller, filename)
       IN  req' = [req EXCEPT ![p] =
                IF r.role # "doctor" THEN Respond(r, 403)
                ELSE IF filename \notin DOMAIN data THEN Respond(r, 404)
                ELSE Respond([r EXCEPT !.out.body = send_file(filename)], 200)]
    /\ UNCHANGED <<users, attrRows, userKeys, srsKey, meta, data,
                   log, now, ev, session>>

\* requests started in a behaviour of SpecBlob
MaxReqBlob == 5

\* <<owner, filename, bytes>>: the file each patient sends under each name
BlobUploads ==
    {<<"p1", FileF, "b1">>, <<"p2", FileF, "b2">>, <<"p2", FileG, "b3">>}

\* the bytes owner_id sent for the blob enc_filename
UploadedBytes(owner_id, enc_filename) ==
    (CHOOSE i \in BlobUploads :
        i[1] = owner_id /\ EncFilename(i[2]) = enc_filename)[3]

\* one request arrives; the download URLs a client holds are the file_url of
\* every stored record (what a granted response carries) and one of no object
RequestBlob ==
    \/ \E i \in BlobUploads :
          UploadStart(1, MaxReqBlob, i[1], i[2], PolRoleDoctor, KeyBlob(TRUE),
                      "iv1", i[3])
    \/ \E n \in {FileF, <<"g">>} : AccessStart(1, MaxReqBlob, "d1", n)
    \/ \E i \in {<<"p1", FileF, "d2">>, <<"p2", FileF, "">>,
                 <<"p2", <<"g">>, "d1">>} :
          RevokeStart(1, MaxReqBlob, i[1], i[2], i[3])
    \/ \E c \in {"d1", "d2", "p1", NoSession},
          n \in {meta[m].file : m \in DOMAIN meta} \cup {<<"h", ".enc">>} :
          Download(1, MaxReqBlob, c, n)

\* uploads, accesses, revokes and downloads, one request at a time
SpecBlob == Init /\ [][RequestBlob \/ Step(1)]_vars

----------------------------------------------------------------------------
(* C21 *)

\* slot p holds a download that was answered with the attachment
Downloaded(p) ==
    req[p].op = "download" /\ req[p].pc = "done" /\ req[p].code = 200

\* the record whose blob is enc_filename
RecordOf(enc_filename) ==
    meta[CHOOSE n \in DOMAIN meta : meta[n].file = enc_filename]

\* C21: blind storage round trip. Whenever no upload is half-way, the blob
\* of every stored record holds exactly the bytes the record's owner sent;
\* the file_url of a granted access names such a blob; and a download of
\* the URL answers with exactly those bytes, whatever accesses and revokes
\* of the object came between.
C21_BlindStorageRoundTrip ==
    /\ []((\A p \in Procs : req[p].pc # "writemeta") =>
            \A n \in DOMAIN meta :
                /\ meta[n].file \in DOMAIN data
                /\ data[meta[n].file] =
                       UploadedBytes(meta[n].owner, meta[n].file))
    /\ [](\A p \in Procs : Granted(p) =>
            /\ req[p].out.file_url \in DOMAIN data
            /\ data[req[p].out.file_url] =
                   UploadedBytes(req[p].m.owner, req[p].out.file_url))
    /\ [][\A p \in Procs :
            (req[p] # req'[p] /\ Downloaded(p)') =>
                req'[p].out.body =
                    UploadedBytes(RecordOf(req'[p].file).owner, req'[p].file)
         ]_vars

\* a doctor downloaded g.enc, sent by p2, after an access to g was granted
\* and p2 had revoked a doctor on it
C21_Witness ==
    /\ Downloaded(1)
    /\ req[1].file = FileG
    /\ req[1].out.body = "b3"
    /\ \E i, j \in 1..Len(log) :
          /\ i < j
          /\ log[i].action = "ACCESS" /\ log[i].status = GRANTED
          /\ log[i].file = <<"g">>
          /\ log[j].action = "REVOKE_USER" /\ log[j].file = <<"g">>

----------------------------------------------------------------------------
(* C22 *)

\* a hex string of a ciphertext sealed to a user's key pair
ReaderSealed(kb) == kb.hex /\ kb.bytes.pk[1] \in UserIds

\* the key_blob form value the owner of record m sent for its object
OwnerUploaded(m) ==
    {KeyBlob(i[4]) : i \in {j \in UploadInputs :
                               j[1] = m.owner /\ EncFilename(j[2]) = m.file}}

\* C22: an access request, granted or denied, writes neither cloud/meta nor
\* cloud/data; the key_blob of every stored record is the value its owner
\* uploaded and is never sealed to a reader; a reader-sealed key exists only
\* in the response of the granted access that produced it, sealed to that
\* request's caller.
C22_AccessWritesNothing ==
    /\ [](\A n \in DOMAIN meta :
            /\ meta[n].key_blob \in OwnerUploaded(meta[n])
            /\ ~ReaderSealed(meta[n].key_blob))
    /\ [](\A p \in Procs :
            /\ ~ReaderSealed(req[p].m.key_blob)
            /\ ~ReaderSealed(req[p].form.key_blob)
            /\ req[p].out.key_blob # EmptyStr =>
                  /\ req[p].op = "access" /\ req[p].out.status = "granted"
                  /\ req[p].out.key_blob.bytes.pk[1] = req[p].user)
    /\ [][\A p \in Procs :
            (req'[p].op = "access" /\ req'[p] # req[p]) =>
                meta' = meta /\ data' = data
         ]_vars

\* a doctor holds a key sealed to its own pair from a second granted access
\* to an object, whose stored key_blob is still the SRS-sealed value
C22_Witness ==
    \E p \in Procs :
        /\ Granted(p)
        /\ ReaderSealed(req[p].out.key_blob)
        /\ meta[req[p].path].key_blob = KeyBlob(TRUE)
        /\ \E i, j \in 1..Len(log) :
              /\ i < j
              /\ log[i].status = GRANTED /\ log[i].file = req[p].file
              /\ log[j].status = GRANTED /\ log[j].file = req[p].file

----------------------------------------------------------------------------
(* C23 *)

\* C23: an upload by a patient whose policy is outside the grammar of
\* section 4.2, or whose key_blob is not a hex string, is answered 400 and
\* never reaches the write of the blob and the record.
C23_InvalidUploadRejected ==
    \A p \in Procs :
        (/\ req[p].op = "upload" /\ req[p].role = "patient"
         /\ \/ ~WellFormed(req[p].form.policy)
            \/ ~req[p].form.key_blob.hex) =>
            req[p].pc = "done" /\ req[p].code = 400

----------------------------------------------------------------------------
(* app/api/common.py: api_srs_public_key, from a host without SRS key files *)

\* lines 7-13: get_or_create_srs_key, the public half in the response
SrsPublicKey(p, lim) ==
    /\ CanStart(p, lim)
    /\ nreq' = nreq + 1
    /\ srsKey' = get_or_create_srs_key(srsKey)
    /\ req' = [req EXCEPT ![p] =
            Respond([NewReq("srskey", NoSession, <<>>) EXCEPT
                        !.out.public_key = get_or_create_srs_key(srsKey).pub],
                    200)]
    /\ UNCHANGED <<users, attrRows, userKeys, meta, data, log, now,
                   ev, session>>

\* requests started in a behaviour of SpecSrs
MaxReqSrs == 5

\* the deployment before the first call of get_or_create_srs_key, and before
\* d2 has signed up
InitSrs ==
    /\ users = [u \in UserIds |->
                  IF u \in Patients THEN "patient"
                  ELSE IF u = "d1" THEN "doctor"
                  ELSE IF u = "d2" THEN "" ELSE "admin"]
    /\ userKeys = [u \in UserIds |->
                     IF u \in {"p1", "d1"} THEN <<u, 1>> ELSE NoKeyId]
    /\ srsKey = [priv |-> NoKeyId, pub |-> NoKeyId]
    /\ InitStores
    /\ ev = NoEval

\* the calls of get_or_create_srs_key and the other core operations; an
\* uploader seals its key to the public key the host has on file
RequestSrs ==
    \/ SrsPublicKey(1, MaxReqSrs)
    \/ ApiSignup("doctor", {})
    \/ WebApiSignup("doctor")
    \/ GenKeys(1, MaxReqSrs, "d2")
    \/ \E s \in BOOLEAN :
          UploadStart(1, MaxReqSrs, "p1", FileF, PolRoleDoctor, KeyBlob(s),
                      "iv1", "b1")
    \/ \E d \in Doctors : AccessStart(1, MaxReqSrs, d, FileF)
    \/ RevokeStart(1, MaxReqSrs, "p1", FileF, "d2")

SpecSrs == InitSrs /\ [][RequestSrs \/ Step(1)]_vars

----------------------------------------------------------------------------
(* C24 *)

\* C24: get_or_create_srs_key is idempotent. The persisted public key always
\* matches the persisted private key; a pair once persisted is never
\* replaced, whatever signup, key generation, upload, access or revoke runs;
\* and every call answers with the persisted public key.
C24_SrsKeyIdempotent ==
    /\ [](srsKey.priv = srsKey.pub)
    /\ [][srsKey.priv # NoKeyId => srsKey' = srsKey]_vars
    /\ [](\A p \in Procs :
            (req[p].op = "srskey" /\ req[p].pc = "done") =>
                /\ req[p].code = 200
                /\ req[p].out.public_key # NoKeyId
                /\ req[p].out.public_key = srsKey.pub)

\* a call answers with the pair of the first call, after an upload sealed to
\* it, a granted access and the signup of d2
C24_Witness ==
    /\ req[1].op = "srskey" /\ req[1].pc = "done"
    /\ req[1].out.public_key = <<"srs", 1>>
    /\ users["d2"] = "doctor"
    /\ \E i \in 1..Len(log) : log[i].status = GRANTED

----------------------------------------------------------------------------
(* C25 *)

\* slot p holds an access that passed the policy and revocation stages on
\* the record and bag it read, and whose stored key could not be re-wrapped:
\* the key_blob is no hex, or does not open under the SRS private key, or
\* the caller has no public key on file
CryptoStageFails(p) ==
    LET r == req[p]
        pol == evaluate_policy(r.bag, r.m.policy)
        raw == FromHex(r.m.key_blob)
    IN  /\ Decided(p)
        /\ ~pol.raised /\ pol.value
        /\ r.user \notin Revoked(r.m)
        /\ r.m.mode = "client_side_encryption"
        /\ r.m.key_blob # EmptyStr
        /\ \/ raw = <<>>
           \/ Dec(srsKey.priv, raw[1]) = <<>>
           \/ get_user_public_key(r.user) = NoKeyId

\* C25: an otherwise authorized access whose crypto stage fails is answered
\* 500 with no key in the response, and appends no audit record.
C25_CryptoFailureIs500 ==
    \A p \in Procs :
        CryptoStageFails(p) =>
            /\ req[p].pc = "done" /\ req[p].code = 500
            /\ req[p].out = NoOut
            /\ req[p].nlog = 0

\* d1, who has a key pair, was refused an object whose key_blob is hex but
\* sealed to another key than the SRS one
C25_Witness ==
    /\ CryptoStageFails(1)
    /\ FromHex(req[1].m.key_blob) # <<>>
    /\ get_user_public_key(req[1].user) # NoKeyId
    /\ req[1].code = 500

----------------------------------------------------------------------------
(* app/api/auth.py: api_login, api_session, api_logout; the listing        *)
(* endpoints of doctor.py, patient.py and admin.py; one client's cookie    *)

\* auth.py lines 47-73: an unknown email or a wrong password is audited and
\* answered 401; otherwise the cookie is set from the user's row
Login(p, lim, email, password_ok) ==
    /\ CanStart(p, lim)
    /\ nreq' = nreq + 1
    /\ LET r == [IdleReq EXCEPT !.op = "login", !.user = email]
           user == get_user_by_id(email)
       IN  IF user = <<>> \/ ~password_ok
           THEN /\ req' = [req EXCEPT ![p] =
                        CallLog(r, email, Str("unknown"), "ACCESS",
                                Str("DENIED_AUTH"), 401)]
                /\ UNCHANGED session
           ELSE /\ req' = [req EXCEPT ![p] =
                        Respond([r EXCEPT !.role = user[1]], 200)]
                /\ session' = [user_id |-> email, role |-> user[1]]
    /\ UNCHANGED <<users, attrRows, userKeys, srsKey, meta, data,
                   log, now, ev>>

\* auth.py lines 75-95
ApiSession(p, lim) ==
    /\ CanStart(p, lim)
    /\ nreq' = nreq + 1
    /\ LET r == [IdleReq EXCEPT !.op = "session", !.user = session.user_id]
           user == get_user_by_id(session.user_id)
       IN  IF session.user_id = NoSession
           THEN req' = [req EXCEPT ![p] = Respond(r, 401)]
                /\ UNCHANGED session
           ELSE IF user = <<>>
           THEN req' = [req EXCEPT ![p] = Respond(r, 401)]
                /\ session' = NoCookie
           ELSE req' = [req EXCEPT ![p] =
                    Respond([r EXCEPT !.role = user[1],
                                      !.out.status = "authenticated"], 200)]
                /\ UNCHANGED session
    /\ UNCHANGED <<users, attrRows, userKeys, srsKey, meta, data,
                   log, now, ev>>

\* as Logout, but the cookie is left as it is
Logout_KeepsSession(p, lim) ==
    /\ CanStart(p, lim)
    /\ nreq' = nreq + 1
    /\ req' = [req EXCEPT ![p] =
            Respond([IdleReq EXCEPT !.op = "logout",
                                    !.user = session.user_id,
                                    !.out.status = "logged_out"], 200)]
    /\ UNCHANGED <<users, attrRows, userKeys, srsKey, meta, data,
                   log, now, ev, session>>

\* auth.py lines 97-100: session.clear()
Logout(p, lim) ==
    /\ CanStart(p, lim)
    /\ nreq' = nreq + 1
    /\ req' = [req EXCEPT ![p] =
            Respond([IdleReq EXCEPT !.op = "logout",
                                    !.user = session.user_id,
                                    !.out.status = "logged_out"], 200)]
    /\ session' = NoCookie
    /\ UNCHANGED <<users, attrRows, userKeys, srsKey, meta, data,
                   log, now, ev>>

\* doctor.py lines 15-71: GET /api/doctor/files
DoctorFiles(p, lim, caller) ==
    /\ CanStart(p, lim)
    /\ nreq' = nreq + 1
    /\ LET r == NewReq("doctor_files", caller, <<>>)
       IN  req' = [req EXCEPT ![p] =
                IF caller = NoSession THEN Respond(r, 401)
                ELSE IF r.role # "doctor" THEN Respond(r, 403)
                ELSE Respond([r EXCEPT !.out.listed = TRUE], 200)]
    /\ UNCHANGED <<users, attrRows, userKeys, srsKey, meta, data,
                   log, now, ev, session>>

\* patient.py lines 14-55: GET /api/patient/files; both refusals are audited
PatientFiles(p, lim, caller) ==
    /\ CanStart(p, lim)
    /\ nreq' = nreq + 1
    /\ LET r == NewReq("patient_files", caller, <<>>)
       IN  req' = [req EXCEPT ![p] =
                IF caller = NoSession
                THEN CallLog(r, "anonymous", Str("unknown"), "ACCESS",
                             Str("DENIED_AUTH"), 401)
                ELSE IF r.role # "patient"
                THEN CallLog(r, caller, Str("unknown"), "ACCESS",
                             Str("DENIED_ROLE"), 403)
                ELSE Respond([r EXCEPT !.out.listed = TRUE], 200)]
    /\ UNCHANGED <<users, attrRows, userKeys, srsKey, meta, data,
                   log, now, ev, session>>

\* as AdminRead, but the listing is given to every caller
AdminRead_NoGate(p, lim, caller, endpoint) ==
    /\ CanStart(p, lim)
    /\ nreq' = nreq + 1
    /\ req' = [req EXCEPT ![p] =
            Respond([NewReq(endpoint, caller, <<>>) EXCEPT
                        !.out.listed = TRUE], 200)]
    /\ UNCHANGED <<users, attrRows, userKeys, srsKey, meta, data,
                   log, now, ev, session>>

\* admin.py lines 11-20 and 49-73: GET /api/admin/users and /api/admin/audit
AdminRead(p, lim, caller, endpoint) ==
    /\ CanStart(p, lim)
    /\ nreq' = nreq + 1
    /\ LET r == NewReq(endpoint, caller, <<>>)
       IN  req' = [req EXCEPT ![p] =
                IF caller = NoSession \/ r.role # "admin" THEN Respond(r, 403)
                ELSE Respond([r EXCEPT !.out.listed = TRUE], 200)]
    /\ UNCHANGED <<users, attrRows, userKeys, srsKey, meta, data,
                   log, now, ev, session>>

\* requests started in a behaviour of SpecGate
MaxReqGate == 4

\* the client logs in and out, asks for its session, and calls every
\* session-protected endpoint with the cookie it holds
RequestGate ==
    \/ \E u \in {"p1", "d1", "a1"}, ok \in BOOLEAN :
          Login(1, MaxReqGate, u, ok)
    \/ Logout(1, MaxReqGate)
    \/ ApiSession(1, MaxReqGate)
    \/ DoctorFiles(1, MaxReqGate, session.user_id)
    \/ PatientFiles(1, MaxReqGate, session.user_id)
    \/ \E e \in {"admin_users", "admin_audit"} :
          AdminRead(1, MaxReqGate, session.user_id, e)
    \/ AccessStart(1, MaxReqGate, session.user_id, FileF)
    \/ Download(1, MaxReqGate, session.user_id, EncFilename(FileF))
    \/ UploadStart(1, MaxReqGate, session.user_id, FileF, PolRoleDoctor,
                   KeyBlob(TRUE), "iv1", "b1")
    \/ RevokeStart(1, MaxReqGate, session.user_id, FileF, "d1")
    \/ AdminAttributes(1, MaxReqGate, session.user_id, "add", "d1",
                       Str("Dept"), Str("Cardio"))

SpecGate == Init /\ [][RequestGate \/ Step(1)]_vars

\* the role each session-protected endpoint asks for
RequiredRole ==
    [access |-> "doctor", download |-> "doctor", doctor_files |-> "doctor",
     upload |-> "patient", revoke |-> "patient", patient_files |-> "patient",
     attributes |-> "admin", admin_users |-> "admin", admin_audit |-> "admin"]

----------------------------------------------------------------------------
(* C26 *)

\* slot p holds a request to a session-protected endpoint that carried no
\* session user id
WithoutSession(p) == req[p].op \in DOMAIN RequiredRole /\ req[p].role = ""

\* C26: every session-protected endpoint answers a request without a session
\* user id with 401, so that 403 goes to authenticated callers only.
C26_NoSessionIs401 ==
    \A p \in Procs :
        (WithoutSession(p) /\ req[p].pc = "done") => req[p].code = 401

----------------------------------------------------------------------------
(* C27 *)

\* slot p holds a request to a session-protected endpoint from a session
\* whose role is not the one the endpoint asks for
WrongRole(p) ==
    /\ req[p].op \in DOMAIN RequiredRole
    /\ req[p].role # ""
    /\ req[p].role # RequiredRole[req[p].op]

\* C27: role gating. A request from an authenticated session of another role
\* than the endpoint's is answered 403 with an empty body (no key, no
\* listing, no log content), never reaches the handler's later steps, and
\* changes no metadata record, blob or attribute row.
C27_RoleGate ==
    /\ [](\A p \in Procs :
            WrongRole(p) =>
                /\ req[p].pc \in {"logread", "logappend", "done"}
                /\ req[p].code = 403
                /\ req[p].out = NoOut)
    /\ [][\A p \in Procs :
            (req'[p] # req[p] /\ WrongRole(p)') =>
                meta' = meta /\ data' = data /\ attrRows' = attrRows
         ]_vars

\* doctor d1, logged in, asked to revoke on the stored object f and was
\* answered 403; the record is as p1 uploaded it
C27_Witness ==
    /\ req[1].op = "revoke" /\ WrongRole(1)
    /\ req[1].pc = "done" /\ req[1].code = 403
    /\ session.user_id = "d1"
    /\ <<"f", ".json">> \in DOMAIN meta
    /\ meta[<<"f", ".json">>].revoked_users = <<>>

----------------------------------------------------------------------------
(* C28 *)

\* this step starts a request to endpoint op in slot p
Starts(p, op) == nreq' = nreq + 1 /\ req'[p] # req[p] /\ req'[p].op = op

\* C28: session lifecycle. The cookie is set only by a successful login, to
\* that user's id and role, and is emptied by every logout; /api/session
\* answers 401 while the cookie is empty (so before any login and after a
\* logout) and otherwise authenticated with the cookie's id and role; and
\* while the cookie is empty every session-protected endpoint refuses the
\* client with an empty body.
C28_SessionLifecycle ==
    /\ [](\A p \in Procs :
            (req[p].op = "session" /\ req[p].pc = "done") =>
                IF session = NoCookie
                THEN req[p].code = 401 /\ req[p].out = NoOut
                ELSE /\ req[p].code = 200
                     /\ req[p].out.status = "authenticated"
                     /\ req[p].user = session.user_id
                     /\ req[p].role = session.role)
    /\ [](\A p \in Procs :
            (session = NoCookie /\ req[p].op \in DOMAIN RequiredRole) =>
                /\ req[p].code \in {401, 403}
                /\ req[p].out = NoOut)
    /\ [][/\ \A p \in Procs : Starts(p, "logout") => session' = NoCookie
          /\ session' # session =>
                \E p \in Procs :
                    \/ Starts(p, "logout")
                    \/ /\ Starts(p, "login") /\ req'[p].code = 200
                       /\ session' = [user_id |-> req'[p].user,
                                      role |-> users[req'[p].user]]
         ]_vars

\* the client logged in as p1 and uploaded f, then logged out, and its
\* next /api/session was answered 401
C28_Witness ==
    /\ req[1].op = "session" /\ req[1].pc = "done" /\ req[1].code = 401
    /\ session = NoCookie
    /\ \E n \in DOMAIN meta : meta[n].owner = "p1"

----------------------------------------------------------------------------
(* The attribute store behind the HTTP endpoints *)

\* requests started in a behaviour of SpecAttr
MaxReqAttr == 4

\* signups with and without an "attributes" field, the admin attribute
\* endpoint called by an admin, a doctor and a client without session (for
\* a user that exists, or for an id no user has: a uuid4 cannot be named
\* before it is issued), and requests to the other endpoints
RequestAttr ==
    \/ \E role \in {"doctor", "admin"}, a \in SignupAttributes :
          ApiSignup(role, a)
    \/ \E c \in {"a1", "d1", NoSession}, act \in {"add", "remove"},
          t \in {u \in Doctors : users[u] # ""} \cup {"zz"},
          k \in {"Role", "Dept"} :
          AdminAttributes(1, MaxReqAttr, c, act, t, Str(k), Str("Cardio"))
    \/ UploadStart(1, MaxReqAttr, "p1", FileF, PolRoleDept, KeyBlob(TRUE),
                   "iv1", "b1")
    \/ \E d \in Doctors : AccessStart(1, MaxReqAttr, d, FileF)
    \/ RevokeStart(1, MaxReqAttr, "p1", FileF, "d1")

SpecAttr == InitSrs /\ [][RequestAttr \/ Step(1)]_vars

----------------------------------------------------------------------------
(* C29 *)

\* C29: attribute lockdown. The attribute store changes only in a step of
\* the admin attribute endpoint called from a session of role admin; a
\* signup leaves the store as it is, whatever its body carries, and the bag
\* of the user it creates holds the derived Role and nothing else.
C29_AttributeLockdown ==
    [][/\ attrRows' # attrRows =>
             /\ nreq' = nreq + 1 /\ users' = users
             /\ \E p \in Procs :
                   /\ req'[p].op = "attributes" /\ req'[p].pc = "done"
                   /\ req'[p].role = "admin" /\ req'[p].code = 200
       /\ \A u \in UserIds :
             (users[u] = "" /\ users'[u] # "") =>
                 /\ attrRows' = attrRows
                 /\ get_user_attributes(u)' =
                        [k \in {Str("Role")} |-> Capitalize(users'[u])]
      ]_vars

\* d2 has signed up, the admin has given d1 an attribute, and d2's access
\* to an object that asks for Dept:Cardio was denied
C29_Witness ==
    /\ users["d2"] = "doctor"
    /\ \E r \in attrRows : r[1] = "d1"
    /\ req[1].op = "access" /\ req[1].user = "d2"
    /\ req[1].pc = "done" /\ req[1].code = 403
    /\ req[1].bag = [k \in {Str("Role")} |-> Str("Doctor")]

----------------------------------------------------------------------------
(* C30 *)

\* the stored role names with their first letter in upper case
RoleAttribute ==
    [patient |-> Str("Patient"), doctor |-> Str("Doctor"),
     admin |-> Str("Admin")]

\* C30: for every user of the identity store, the bag get_user_attributes
\* returns has Role equal to the stored role with its first letter in upper
\* case, whether the attribute store has no Role row for the user or a Role
\* row with another value.
C30_DerivedRole ==
    \A u \in UserIds :
        get_user_by_id(u) # <<>> =>
            /\ Str("Role") \in DOMAIN get_user_attributes(u)
            /\ get_user_attributes(u)[Str("Role")] = RoleAttribute[users[u]]

\* one user has a stored Role row with another value than its role gives,
\* another user has no Role row
C30_Witness ==
    /\ \E u \in UserIds, r \in attrRows :
          /\ get_user_by_id(u) # <<>>
          /\ r[1] = u /\ r[2] = Str("Role")
          /\ r[3] # RoleAttribute[users[u]]
    /\ \E u \in UserIds :
          /\ get_user_by_id(u) # <<>>
          /\ ~\E r \in attrRows : r[1] = u /\ r[2] = Str("Role")

----------------------------------------------------------------------------
(* C31 *)

\* C31: granular revoke is idempotent on the record. No stored record lists
\* a target twice, and the write of a granular revoke whose target the
\* record already lists leaves the record, and every store, as it was.
C31_GranularRevokeIdempotent ==
    /\ [](\A n \in DOMAIN meta :
            \A i, j \in 1..Len(meta[n].revoked_users) :
                meta[n].revoked_users[i] = meta[n].revoked_users[j] => i = j)
    /\ [][\A p \in Procs :
            (/\ req[p].op = "revoke" /\ req[p].pc = "write"
             /\ req'[p].pc = "done"
             /\ req[p].target # ""
             /\ req[p].target \in Revoked(meta[req[p].path])) =>
                meta' = meta /\ data' = data
         ]_vars

\* p1 uploaded f and revoked d1 on it twice, both answered with success;
\* the record lists d1 once
C31_Witness ==
    /\ nreq = 3
    /\ SuccessfulRevoke(1) /\ req[1].target = "d1"
    /\ meta[req[1].path].revoked_users = <<"d1">>
    /\ \E i, j \in 1..Len(log) :
          /\ i < j
          /\ log[i].action = "REVOKE_USER" /\ log[i].status[2] = "d1"
          /\ log[j].action = "REVOKE_USER" /\ log[j].status[2] = "d1"

----------------------------------------------------------------------------
(* C32 *)

\* test_hash_chain_integrity, lines 602-626: the indices whose recomputed
\* hash differs from the stored one. The hash is recomputed over the
\* record's fields and the running prev_hash, which line 626 sets to the
\* stored hash of the record before
invalid_entries(logs) ==
    {i \in 1..Len(logs) :
        LET prev_hash == IF i = 1 THEN <<>> ELSE logs[i - 1].hash
            entry_data == [action |-> logs[i].action, file |-> logs[i].file,
                           prev_hash |-> prev_hash,
                           status |-> logs[i].status,
                           timestamp |-> logs[i].timestamp,
                           user |-> logs[i].user]
        IN  Sha256(entry_data) # logs[i].hash}

\* the log with one field of record k edited in place, no hash recomputed
EditedLogs(k) ==
    {[log EXCEPT ![k].status = Str("GRANTED_REWRAP")],
     [log EXCEPT ![k].timestamp = log[k].timestamp + 1],
     [log EXCEPT ![k].user = "mallory"]}

\* C32: after an in-place edit of one field of record k, verification flags
\* index k and every index after k.
C32_TamperFlagsDownstream ==
    \A k \in 1..Len(log) : \A edited \in EditedLogs(k) :
        \A i \in k..Len(log) : i \in invalid_entries(edited)

----------------------------------------------------------------------------
(* C34 *)

\* list.sort(key=timestamp, reverse=True): newest first; the sort is stable,
\* records with equal timestamps keep the order they had in the file
RECURSIVE sort_reverse(_)
sort_reverse(logs) ==
    IF logs = <<>> THEN <<>>
    ELSE LET x == Head(logs)
             rest == sort_reverse(Tail(logs))
             Newer(e) == e.timestamp > x.timestamp
             NotNewer(e) == ~Newer(e)
         IN  SelectSeq(rest, Newer) \o <<x>> \o SelectSeq(rest, NotNewer)

\* GET /api/admin/audit: every line of the log file, parsed and sorted
\* (every line log_event wrote is a parseable record, none is skipped)
api_audit_logs(p, lim, caller) ==
    /\ CanStart(p, lim)
    /\ nreq' = nreq + 1
    /\ LET r == NewReq("audit_logs", caller, <<>>)
       IN  req' = [req EXCEPT ![p] =
                IF caller = NoSession \/ r.role # "admin" THEN Respond(r, 403)
                ELSE Respond([r EXCEPT !.out.listed = TRUE,
                                       !.out.logs = sort_reverse(log)], 200)]
    /\ UNCHANGED <<users, attrRows, userKeys, srsKey, meta, data,
                   log, now, ev, session>>

\* requests started in a behaviour of SpecAudit
MaxReqAudit == 4

RequestAudit ==
    \/ UploadStart(1, MaxReqAudit, "p1", FileF, PolRoleDoctor, KeyBlob(TRUE),
                   "iv1", "b1")
    \/ \E c \in Doctors : AccessStart(1, MaxReqAudit, c, FileF)
    \/ \E t \in {"d1", ""} : RevokeStart(1, MaxReqAudit, "p1", FileF, t)
    \/ \E c \in {"a1", "d1", NoSession} : api_audit_logs(1, MaxReqAudit, c)
    \/ Tick

\* the admin reads the log between uploads, accesses and revokes, one
\* request at a time, the clock going on in whole seconds
SpecAudit == Init /\ [][RequestAudit \/ Step(1)]_vars

\* reversed(logs) of test_hash_chain_integrity, line 600
Reversed(logs) == [i \in 1..Len(logs) |-> logs[Len(logs) + 1 - i]]

\* C34: the list the admin audit endpoint returns is the exact reverse of
\* append order, and reversed it verifies with every entry valid, records
\* with equal timestamps included.
C34_AuditListIsReverseOfAppendOrder ==
    \A p \in Procs :
        (req[p].op = "audit_logs" /\ req[p].pc = "done"
            /\ req[p].code = 200) =>
            /\ Reversed(req[p].out.logs) = log
            /\ invalid_entries(Reversed(req[p].out.logs)) = {}

----------------------------------------------------------------------------
(* C33 *)

\* the revocation the successful revoke in slot p asked for is in the record
Stored(p) ==
    IF req[p].target # ""
    THEN req[p].target \in Revoked(meta[req[p].path])
    ELSE meta[req[p].path].policy = SENTINEL

\* C33: revocation updates on one object are atomic read-modify-writes.
\* When the owner's two revokes on one object (two targets, or a blanket and
\* a granular one), the only requests since the upload, both returned
\* success, the stored record holds both revocations.
C33_ConcurrentRevokesBothStored ==
    (/\ nreq = 3
     /\ SuccessfulRevoke(1) /\ SuccessfulRevoke(2)
     /\ req[1].path = req[2].path
     /\ req[1].target # req[2].target) =>
        Stored(1) /\ Stored(2)

----------------------------------------------------------------------------
(* C35 *)

\* GET /api/srs/public-key served in parallel. keys.py line 21: both files
\* exist, or (lines 29-32) a pair is generated; the pair is held in the
\* response until it is written
api_srs_public_key(p, lim) ==
    /\ CanStart(p, lim)
    /\ nreq' = nreq + 1
    /\ LET r == NewReq("srs_public_key", NoSession, <<>>)
       IN  req' = [req EXCEPT ![p] =
                IF srsKey.priv # NoKeyId /\ srsKey.pub # NoKeyId
                THEN [r EXCEPT !.pc = "srs_load"]
                ELSE [r EXCEPT !.pc = "srs_write_priv",
                               !.out.public_key = <<"srs", nreq + 1>>]]
    /\ UNCHANGED <<users, attrRows, userKeys, srsKey, meta, data, log,
                   now, ev, session>>

\* keys.py lines 22-26: the files are read; the caller keeps the public half
SrsLoad(p) ==
    /\ req[p].op = "srs_public_key" /\ req[p].pc = "srs_load"
    /\ req' = [req EXCEPT ![p] =
            Respond([req[p] EXCEPT !.out.public_key = srsKey.pub], 200)]
    /\ UNCHANGED <<users, attrRows, userKeys, srsKey, meta, data, log,
                   now, nreq, ev, session>>

\* keys.py lines 34-35
SrsWritePriv(p) ==
    /\ req[p].op = "srs_public_key" /\ req[p].pc = "srs_write_priv"
    /\ srsKey' = [srsKey EXCEPT !.priv = req[p].out.public_key]
    /\ req' = [req EXCEPT ![p].pc = "srs_write_pub"]
    /\ UNCHANGED <<users, attrRows, userKeys, meta, data, log, now,
                   nreq, ev, session>>

\* keys.py lines 37-40, common.py line 12
SrsWritePub(p) ==
    /\ req[p].op = "srs_public_key" /\ req[p].pc = "srs_write_pub"
    /\ srsKey' = [srsKey EXCEPT !.pub = req[p].out.public_key]
    /\ req' = [req EXCEPT ![p] = Respond(req[p], 200)]
    /\ UNCHANGED <<users, attrRows, userKeys, meta, data, log, now,
                   nreq, ev, session>>

\* requests started in a behaviour of SpecSrsRace
MaxReqSrsRace == 6

\* GET /api/srs/public-key in parallel, on a host without key files
SpecSrsRace ==
    InitSrs /\ [][\E p \in Procs :
                    \/ api_srs_public_key(p, MaxReqSrsRace)
                    \/ SrsLoad(p)
                    \/ SrsWritePriv(p)
                    \/ SrsWritePub(p)]_vars

\* C35: exactly one SRS pair ever exists. Once the concurrent first calls
\* of get_or_create_srs_key have returned, the two persisted files belong
\* to one pair and the public key every caller got is the persisted one.
C35_OneSrsPair ==
    (nreq > 0 /\ \A p \in Procs : Free(p)) =>
        /\ srsKey.priv = srsKey.pub
        /\ \A p \in Procs :
              req[p].op = "srs_public_key" =>
                  req[p].out.public_key = srsKey.priv

----------------------------------------------------------------------------
(* C36 *)

\* the log holds a line of this action and status, written for the owner of
\* the record named n
OwnerLogged(n, action, status) ==
    \E i \in 1..Len(log) :
        /\ log[i].action = action /\ log[i].status = status
        /\ log[i].user = meta[n].owner
        /\ RevokeMetaFilename(log[i].file) = n

----------------------------------------------------------------------------
(* C37 *)

\* C37: authorization is evaluated against the attribute store as it is at
\* request time, nothing being cached in the session. With requests served
\* one at a time, an access is refused with DENIED_POLICY when the user's
\* bag, as the store gives it now, lacks or differs on an attribute the
\* object's policy requires (the admin removed or changed it), and it is
\* not refused for the policy when the bag holds them all (the admin added
\* it).
C37_AccessFollowsAttributeStore ==
    \A p \in Procs :
        (Decided(p) /\ req[p].pc = "done") =>
            LET bag == get_user_attributes(req[p].user)
            IN  IF Satisfies(bag, req[p].m.policy)
                THEN req[p].status # DENIED_POLICY
                ELSE req[p].code = 403 /\ req[p].status = DENIED_POLICY

\* the object asks for Dept:None; the admin gave d1 another Dept and took
\* it away again; d1's next access was granted
RemovedYetGranted ==
    /\ nreq = 4
    /\ Granted(1) /\ req[1].user = "d1"
    /\ req[1].m.policy = PolDeptNone
    /\ attrRows = {}

----------------------------------------------------------------------------
(* C38 *)

\* as LogReadRaises, but log_event takes a last line it cannot read for an
\* empty file and goes on
LogReadRaises_SkipsLine(p) ==
    /\ req[p].pc = "logread"
    /\ LastHashRaises(log)
    /\ req' = [req EXCEPT ![p] = [req[p] EXCEPT !.pc = "logappend",
                                   !.ts = now, !.prev = <<>>]]
    /\ UNCHANGED <<users, attrRows, userKeys, srsKey, meta, data,
                   log, now, nreq, ev, session>>

\* logger.py lines 13-17: json.loads or ["hash"] raises on the last line;
\* log_event is left before line 32, the handler answers 500
LogReadRaises(p) ==
    /\ req[p].pc = "logread"
    /\ LastHashRaises(log)
    /\ req' = [req EXCEPT ![p] = LogFailResponse(req[p])]
    /\ UNCHANGED <<users, attrRows, userKeys, srsKey, meta, data,
                   log, now, nreq, ev, session>>

\* what a crash inside the write of lines 32-33, or an editor, leaves as
\* the last line: a line written in part, a blank line, or the last record
\* without its hash
DamagedLogs(lines) ==
    {Append(lines, [raw |-> "{"]), Append(lines, [raw |-> ""])} \cup
    (IF lines = <<>> THEN {}
     ELSE {[lines EXCEPT ![Len(lines)] =
              [f \in DOMAIN lines[Len(lines)] \ {"hash"} |->
                  lines[Len(lines)][f]]]})

\* the log file is damaged while no request is being served
DamageLastLine ==
    /\ ~LastHashRaises(log)
    /\ \A p \in Procs : Free(p)
    /\ log' \in DamagedLogs(log)
    /\ UNCHANGED <<users, attrRows, userKeys, srsKey, meta, data,
                   now, req, nreq, ev, session>>

\* requests started in a behaviour of SpecDamaged
MaxReqDamaged == 4

\* uploads, accesses and revokes, one request at a time, on a host whose
\* log file gets a last line that cannot be read
SpecDamaged ==
    Init /\ [][\/ UploadStart(1, MaxReqDamaged, "p1", FileF, PolRoleDoctor,
                              KeyBlob(TRUE), "iv1", "b1")
               \/ \E c \in Doctors : AccessStart(1, MaxReqDamaged, c, FileF)
               \/ \E t \in {"d1", ""} :
                     RevokeStart(1, MaxReqDamaged, "p1", FileF, t)
               \/ Step(1)
               \/ LogReadRaises(1)
               \/ DamageLastLine]_vars

\* C38: once the last line of the audit log is no parseable record with a
\* hash, every log_event call raises before it writes: the log stays as it
\* is, no access is granted a key and no revoke changes a metadata record.
C38_DamagedLogStopsGrantsAndRevokes ==
    [][LastHashRaises(log) =>
          /\ log' = log
          /\ \A p \in Procs :
                /\ Granted(p)' => req'[p] = req[p]
                /\ req'[p].op = "revoke" => meta' = meta
      ]_vars

\* after the damage d1, whose key had been re-wrapped, got 500 and no key
C38_Witness ==
    /\ LastHashRaises(log)
    /\ req[1].op = "access" /\ req[1].user = "d1"
    /\ req[1].pc = "done" /\ req[1].code = 500
    /\ req[1].unwrapped /\ req[1].out = NoOut

====
